---- MODULE Spec2Model ----
(***************************************************************************)
(* DevLog: the session store (devlog/storage.py, an SQLite file with the   *)
(* tables sessions and tags), the session lifecycle service on top of it   *)
(* (devlog/session.py), the report builder (devlog/report.py) and the      *)
(* commands (devlog/cli.py).                                               *)
(*                                                                         *)
(* Text is a sequence of one-character strings, so that strip, lower,     *)
(* GROUP_CONCAT, split and LIKE are computed character by character.      *)
(* A nullable value is <<>> (NULL / None) or <<v>>.                        *)
(* A wall-clock reading is a number of seconds; the text stored in the     *)
(* database is its ISO form, modelled by its fields.                       *)
(***************************************************************************)
EXTENDS Integers, Sequences, FiniteSets, TLC

(* ------------------------------ bounds ------------------------------- *)

\* sessions ever created in one run (the AUTOINCREMENT counter's cap)
MaxSessions == 2

\* the wall clock reads 0 or ClockSpan seconds
ClockSpan == 90

\* tags per start call in the tag round-trip specification
MaxTags == 2

(* --------------------------- nullable values -------------------------- *)

NULL == <<>>

Some(v) == <<v>>

IsNull(o) == o = <<>>

Val(o) == o[1]

(* -------------------------------- text -------------------------------- *)

\* str.isspace for one character
IsSpace(c) == c \in {" ", "\t", "\n"}

\* str.lower for one character (ASCII letters the inputs use)
LowerChar(c) ==
  CASE c = "A" -> "a"
    [] c = "B" -> "b"
    [] c = "C" -> "c"
    [] c = "D" -> "d"
    [] c = "N" -> "n"
    [] c = "X" -> "x"
    [] c = "Y" -> "y"
    [] OTHER -> c

\* str.lower()
lower(s) == [i \in 1..Len(s) |-> LowerChar(s[i])]

RECURSIVE lstrip(_)
\* str.lstrip(): drop leading whitespace
lstrip(s) ==
  IF s = <<>> THEN <<>>
  ELSE IF IsSpace(Head(s)) THEN lstrip(Tail(s)) ELSE s

RECURSIVE rstrip(_)
\* str.rstrip(): drop trailing whitespace
rstrip(s) ==
  IF s = <<>> THEN <<>>
  ELSE IF IsSpace(s[Len(s)]) THEN rstrip(SubSeq(s, 1, Len(s) - 1)) ELSE s

\* str.strip()
strip(s) == rstrip(lstrip(s))

RECURSIVE join(_, _)
\* sep.join(parts), as GROUP_CONCAT builds its text with the separator ","
join(parts, sep) ==
  IF parts = <<>> THEN <<>>
  ELSE IF Len(parts) = 1 THEN parts[1]
  ELSE parts[1] \o <<sep>> \o join(Tail(parts), sep)

RECURSIVE splitFrom(_, _, _)
\* the pieces of s between occurrences of sep, cur being the piece under way
splitFrom(s, sep, cur) ==
  IF s = <<>> THEN <<cur>>
  ELSE IF Head(s) = sep THEN <<cur>> \o splitFrom(Tail(s), sep, <<>>)
  ELSE splitFrom(Tail(s), sep, Append(cur, Head(s)))

\* str.split(sep): every separator cuts, empty pieces are kept
split(s, sep) == splitFrom(s, sep, <<>>)

RECURSIVE Like(_, _)
\* SQLite's text LIKE pattern: % matches any run of characters, _ any one
\* character, any other character matches itself without regard to ASCII case
Like(text, pattern) ==
  IF pattern = <<>> THEN text = <<>>
  ELSE IF Head(pattern) = "%"
    THEN Like(text, Tail(pattern)) \/ (text # <<>> /\ Like(Tail(text), pattern))
  ELSE /\ text # <<>>
       /\ (Head(pattern) = "_" \/ LowerChar(Head(pattern)) = LowerChar(Head(text)))
       /\ Like(Tail(text), Tail(pattern))

\* the code point of a character (of the characters the inputs use)
Ord(c) ==
  CASE c = " " -> 32
    [] c = "%" -> 37
    [] c = "," -> 44
    [] c = "A" -> 65
    [] c = "B" -> 66
    [] c = "C" -> 67
    [] c = "X" -> 88
    [] c = "Y" -> 89
    [] c = "_" -> 95
    [] c = "a" -> 97
    [] c = "b" -> 98
    [] c = "c" -> 99
    [] c = "n" -> 110
    [] c = "x" -> 120
    [] c = "y" -> 121
    [] OTHER -> 127

RECURSIVE BytesLess(_, _)
\* SQLite's comparison of two texts (collation BINARY): the first character
\* that differs decides, a proper prefix comes first
BytesLess(a, b) ==
  IF a = <<>> \/ b = <<>> THEN a = <<>> /\ b # <<>>
  ELSE Ord(Head(a)) < Ord(Head(b))
         \/ (Ord(Head(a)) = Ord(Head(b)) /\ BytesLess(Tail(a), Tail(b)))

(* ------------------------------- time --------------------------------- *)

\* datetime.isoformat(): the text "DDDD-HH:MM:SS" as its fixed-width fields
isoformat(t) ==
  <<t \div 86400, (t % 86400) \div 3600, (t % 3600) \div 60, t % 60>>

\* datetime.fromisoformat(): the instant a stored text denotes
fromisoformat(x) == x[1] * 86400 + x[2] * 3600 + x[3] * 60 + x[4]

RECURSIVE TextLess(_, _)
\* SQLite's comparison of two stored time texts: character order, which for
\* fixed-width fields is field-by-field order
TextLess(a, b) ==
  IF a = <<>> \/ b = <<>> THEN a = <<>> /\ b # <<>>
  ELSE Head(a) < Head(b) \/ (Head(a) = Head(b) /\ TextLess(Tail(a), Tail(b)))

TextLeq(a, b) == a = b \/ TextLess(a, b)

\* int(x / d) in Python: the quotient truncated toward zero
TruncDiv(x, d) == IF x >= 0 THEN x \div d ELSE -((-x) \div d)

\* the wall clock (datetime.now()): local time, which the environment may set
\* forward or back between any two readings
Readings == {0, ClockSpan}

(* ------------------------ the database (storage.py) ------------------- *)

\* Storage._init_database: both tables empty, no id given out yet.  The
\* connections never issue PRAGMA foreign_keys = ON, so SQLite does not act on
\* the tags table's ON DELETE CASCADE clause.
EmptyDB == [sessions |-> <<>>, tags |-> <<>>, seq |-> 0]

\* the ids of the rows of table sessions
Ids(db) == DOMAIN db.sessions

\* the session row an INSERT of create_session writes
NewRow(description, now) ==
  [description |-> description,
   start_time  |-> isoformat(now),
   end_time    |-> NULL,
   duration    |-> NULL,
   notes       |-> NULL,
   created_at  |-> isoformat(now)]

\* the tag rows create_session inserts, one per tag, in the order given
NewTagRows(session_id, tags) ==
  [i \in 1..Len(tags) |-> [session_id |-> session_id, tag |-> strip(lower(tags[i]))]]

\* the largest of a set of ids, 0 when there is none
MaxId(ids) == IF ids = {} THEN 0 ELSE CHOOSE i \in ids : \A j \in ids : j <= i

\* create_session on a table without AUTOINCREMENT: the new id is one more
\* than the largest id in the table
create_session_ReuseRowid(db, description, tags, now) ==
  LET session_id == MaxId(Ids(db)) + 1
  IN  [db |-> [sessions |-> [i \in Ids(db) \cup {session_id} |->
                               IF i = session_id THEN NewRow(description, now)
                               ELSE db.sessions[i]],
               tags     |-> db.tags \o NewTagRows(session_id, tags),
               seq      |-> session_id],
       id |-> session_id]

\* Storage.create_session: returns the new database and cursor.lastrowid
create_session(db, description, tags, now) ==
  LET session_id == db.seq + 1
  IN  [db |-> [sessions |-> [i \in Ids(db) \cup {session_id} |->
                               IF i = session_id THEN NewRow(description, now)
                               ELSE db.sessions[i]],
               tags     |-> db.tags \o NewTagRows(session_id, tags),
               seq      |-> session_id],
       id |-> session_id]

\* end_session without its test of the SELECT's result: True also when no row
\* has the id
end_session_Unchecked(db, session_id, notes, now) ==
  IF session_id \notin Ids(db) THEN [db |-> db, ok |-> TRUE]
  ELSE
    LET start_time == fromisoformat(db.sessions[session_id].start_time)
        duration   == TruncDiv(now - start_time, 60)
    IN  [db |-> [db EXCEPT !.sessions[session_id] =
                   [@ EXCEPT !.end_time = Some(isoformat(now)),
                             !.duration = Some(duration),
                             !.notes    = notes]],
         ok |-> TRUE]

\* end_session with "AND end_time IS NULL" in its UPDATE: an ended session is
\* left as it is
end_session_OnlyActive(db, session_id, notes, now) ==
  IF session_id \notin Ids(db) THEN [db |-> db, ok |-> FALSE]
  ELSE IF ~IsNull(db.sessions[session_id].end_time) THEN [db |-> db, ok |-> TRUE]
  ELSE
    LET start_time == fromisoformat(db.sessions[session_id].start_time)
        duration   == TruncDiv(now - start_time, 60)
    IN  [db |-> [db EXCEPT !.sessions[session_id] =
                   [@ EXCEPT !.end_time = Some(isoformat(now)),
                             !.duration = Some(duration),
                             !.notes    = notes]],
         ok |-> TRUE]

\* end_session with an UPDATE that lacks "WHERE id = ?": every row is
\* rewritten
end_session_AllRows(db, session_id, notes, now) ==
  IF session_id \notin Ids(db) THEN [db |-> db, ok |-> FALSE]
  ELSE
    LET start_time == fromisoformat(db.sessions[session_id].start_time)
        duration   == TruncDiv(now - start_time, 60)
    IN  [db |-> [db EXCEPT !.sessions =
                   [i \in Ids(db) |->
                      [db.sessions[i] EXCEPT !.end_time = Some(isoformat(now)),
                                             !.duration = Some(duration),
                                             !.notes    = notes]]],
         ok |-> TRUE]

\* Storage.end_session: FALSE when no row has the id, else the row is
\* rewritten with end_time, duration and notes
end_session(db, session_id, notes, now) ==
  IF session_id \notin Ids(db) THEN [db |-> db, ok |-> FALSE]
  ELSE
    LET start_time == fromisoformat(db.sessions[session_id].start_time)
        duration   == TruncDiv(now - start_time, 60)
    IN  [db |-> [db EXCEPT !.sessions[session_id] =
                   [@ EXCEPT !.end_time = Some(isoformat(now)),
                             !.duration = Some(duration),
                             !.notes    = notes]],
         ok |-> TRUE]

\* the tags of one session in rowid order
TagsOf(db, session_id) ==
  LET rows == SelectSeq(db.tags, LAMBDA r : r.session_id = session_id)
  IN  [i \in 1..Len(rows) |-> rows[i].tag]

\* GROUP_CONCAT(t.tag) over the LEFT JOIN: NULL for a session without tag
\* rows, else the tags joined by "," (rows come in rowid order through
\* idx_tags_session_id)
group_concat(db, session_id) ==
  IF TagsOf(db, session_id) = <<>> THEN NULL
  ELSE Some(join(TagsOf(db, session_id), ","))

\* dict(row) of "SELECT s.*, GROUP_CONCAT(t.tag) as tags"
RowDict(db, session_id) ==
  [id          |-> session_id,
   description |-> db.sessions[session_id].description,
   start_time  |-> db.sessions[session_id].start_time,
   end_time    |-> db.sessions[session_id].end_time,
   duration    |-> db.sessions[session_id].duration,
   notes       |-> db.sessions[session_id].notes,
   created_at  |-> db.sessions[session_id].created_at,
   tags        |-> group_concat(db, session_id)]

\* the row ORDER BY s.start_time DESC puts first among ids: the latest
\* start_time, and among equal start_times the lowest id (the grouped rows
\* reach the sorter in id order and the sort keeps that order)
First(db, ids) ==
  CHOOSE i \in ids : \A j \in ids \ {i} :
    \/ TextLess(db.sessions[j].start_time, db.sessions[i].start_time)
    \/ (db.sessions[j].start_time = db.sessions[i].start_time /\ i < j)

RECURSIVE OrderByStartDesc(_, _)
\* ORDER BY s.start_time DESC over the rows ids
OrderByStartDesc(db, ids) ==
  IF ids = {} THEN <<>>
  ELSE <<First(db, ids)>> \o OrderByStartDesc(db, ids \ {First(db, ids)})

\* LIMIT n: the first n rows; a negative n means no limit
Limit(rows, n) ==
  IF n < 0 \/ n >= Len(rows) THEN rows ELSE SubSeq(rows, 1, n)

\* the rows WHERE s.end_time IS NULL
ActiveIds(db) == {i \in Ids(db) : IsNull(db.sessions[i].end_time)}

\* get_active_session without its "WHERE s.end_time IS NULL"
get_active_session_AnyLatest(db) ==
  IF Ids(db) = {} THEN NULL
  ELSE Some(RowDict(db, First(db, Ids(db))))

\* get_active_session with "ORDER BY s.start_time ASC": the active row that
\* started first
get_active_session_Earliest(db) ==
  IF ActiveIds(db) = {} THEN NULL
  ELSE Some(RowDict(db,
         CHOOSE i \in ActiveIds(db) : \A j \in ActiveIds(db) \ {i} :
           \/ TextLess(db.sessions[i].start_time, db.sessions[j].start_time)
           \/ (db.sessions[i].start_time = db.sessions[j].start_time /\ i < j)))

\* Storage.get_active_session: None, or the dict of the first active row
get_active_session(db) ==
  IF ActiveIds(db) = {} THEN NULL
  ELSE Some(RowDict(db, First(db, ActiveIds(db))))

\* the WHERE clause comparing the tag as given, neither lower-cased nor
\* trimmed
Matches_RawTag(db, i, start_date, end_date, tag, search_term) ==
  /\ IsNull(start_date) \/
       TextLeq(isoformat(Val(start_date)), db.sessions[i].start_time)
  /\ IsNull(end_date) \/
       TextLeq(db.sessions[i].start_time, isoformat(Val(end_date)))
  /\ (IsNull(tag) \/ Val(tag) = <<>>) \/
       \E k \in 1..Len(db.tags) :
          db.tags[k].session_id = i /\ db.tags[k].tag = Val(tag)
  /\ (IsNull(search_term) \/ Val(search_term) = <<>>) \/
       \/ Like(db.sessions[i].description, <<"%">> \o Val(search_term) \o <<"%">>)
       \/ /\ ~IsNull(db.sessions[i].notes)
          /\ Like(Val(db.sessions[i].notes), <<"%">> \o Val(search_term) \o <<"%">>)

\* the WHERE clause get_sessions builds from the filters that are truthy
Matches(db, i, start_date, end_date, tag, search_term) ==
  /\ IsNull(start_date) \/
       TextLeq(isoformat(Val(start_date)), db.sessions[i].start_time)
  /\ IsNull(end_date) \/
       TextLeq(db.sessions[i].start_time, isoformat(Val(end_date)))
  /\ (IsNull(tag) \/ Val(tag) = <<>>) \/
       \E k \in 1..Len(db.tags) :
          db.tags[k].session_id = i /\ db.tags[k].tag = strip(lower(Val(tag)))
  /\ (IsNull(search_term) \/ Val(search_term) = <<>>) \/
       \/ Like(db.sessions[i].description, <<"%">> \o Val(search_term) \o <<"%">>)
       \/ /\ ~IsNull(db.sessions[i].notes)
          /\ Like(Val(db.sessions[i].notes), <<"%">> \o Val(search_term) \o <<"%">>)

\* Storage.get_sessions: the dicts of the matching rows, latest start first
get_sessions(db, start_date, end_date, tag, search_term, limit) ==
  LET ids  == {i \in Ids(db) : Matches(db, i, start_date, end_date, tag, search_term)}
      rows == Limit(OrderByStartDesc(db, ids), limit)
  IN  [k \in 1..Len(rows) |-> RowDict(db, rows[k])]

\* the rows of "tags t JOIN sessions s ON t.session_id = s.id WHERE
\* s.duration IS NOT NULL" within the date range: one per tag row whose
\* session is there and has a duration
JoinedRows(db, start_date, end_date) ==
  SelectSeq(db.tags, LAMBDA r :
    /\ r.session_id \in Ids(db)
    /\ ~IsNull(db.sessions[r.session_id].duration)
    /\ IsNull(start_date) \/
         TextLeq(isoformat(Val(start_date)), db.sessions[r.session_id].start_time)
    /\ IsNull(end_date) \/
         TextLeq(db.sessions[r.session_id].start_time, isoformat(Val(end_date))))

RECURSIVE SumJoined(_, _, _)
\* SUM(s.duration) over the joined rows of one tag: a session counts once for
\* each of its rows with the tag
SumJoined(db, rows, tag) ==
  IF rows = <<>> THEN 0
  ELSE (IF Head(rows).tag = tag
          THEN Val(db.sessions[Head(rows).session_id].duration) ELSE 0)
       + SumJoined(db, Tail(rows), tag)

\* one row of GROUP BY t.tag: (tag, COUNT(DISTINCT s.id), SUM(s.duration))
TagGroup(db, rows, tag) ==
  [tag           |-> tag,
   session_count |-> Cardinality({rows[k].session_id :
                                    k \in {j \in 1..Len(rows) : rows[j].tag = tag}}),
   total_minutes |-> SumJoined(db, rows, tag)]

\* the group ORDER BY total_minutes DESC puts first: the largest total, and
\* among equal totals the tag that comes last in text order (the groups reach
\* the sorter in tag order and the descending sort reverses equal keys)
FirstGroup(groups) ==
  CHOOSE g \in groups : \A h \in groups \ {g} :
    \/ h.total_minutes < g.total_minutes
    \/ (h.total_minutes = g.total_minutes /\ BytesLess(h.tag, g.tag))

RECURSIVE OrderByTotalDesc(_)
\* ORDER BY total_minutes DESC over the groups
OrderByTotalDesc(groups) ==
  IF groups = {} THEN <<>>
  ELSE <<FirstGroup(groups)>> \o OrderByTotalDesc(groups \ {FirstGroup(groups)})

\* Storage.get_tag_summary: per tag, the number of sessions and the minutes
get_tag_summary(db, start_date, end_date) ==
  LET rows == JoinedRows(db, start_date, end_date)
  IN  OrderByTotalDesc({TagGroup(db, rows, rows[k].tag) : k \in 1..Len(rows)})

\* delete_session returning True without looking at cursor.rowcount
delete_session_ReportsTrue(db, session_id) ==
  [db |-> [db EXCEPT !.sessions = [i \in Ids(db) \ {session_id} |-> db.sessions[i]]],
   ok |-> TRUE]

\* delete_session with "WHERE id = ? AND end_time IS NOT NULL": a session
\* that has not ended is not deleted
delete_session_CompletedOnly(db, session_id) ==
  [db |-> [db EXCEPT !.sessions =
             [i \in {j \in Ids(db) : j # session_id \/ IsNull(db.sessions[j].end_time)}
                |-> db.sessions[i]]],
   ok |-> session_id \in Ids(db) /\ ~IsNull(db.sessions[session_id].end_time)]

\* Storage.delete_session: deletes the session row only (see EmptyDB) and
\* reports whether a row went
delete_session(db, session_id) ==
  [db |-> [db EXCEPT !.sessions = [i \in Ids(db) \ {session_id} |-> db.sessions[i]]],
   ok |-> session_id \in Ids(db)]

(* ------------------ the lifecycle service (session.py) ---------------- *)

\* the messages of the ValueErrors SessionManager raises; NoError for a call
\* that returns
NoError == "none"

AlreadyActive == "Session already in progress"

EmptyDescription == "Description cannot be empty"

NoActiveSession == "No active session to stop"

FailedToStop == "Failed to stop session"

\* limit's default in list_sessions and search_sessions
DefaultLimit == 50

\* the limit get_session_stats lists with
StatsLimit == 1000

\* the outcome of a call: the database after it, the error raised (or
\* NoError) and the value returned (NULL when it raised)
Raise(db, error) == [db |-> db, raised |-> error, ret |-> NULL]

Return(db, value) == [db |-> db, raised |-> NoError, ret |-> value]

RECURSIVE cleaned_tags(_)
\* [t.strip() for t in tags if t.strip()]
cleaned_tags(tags) ==
  IF tags = <<>> THEN <<>>
  ELSE IF strip(Head(tags)) # <<>>
    THEN <<strip(Head(tags))>> \o cleaned_tags(Tail(tags))
  ELSE cleaned_tags(Tail(tags))

\* the dict start_session returns; its start_time is a reading of the clock
\* taken after the insert
StartView(session_id, description, tags, now) ==
  [id |-> session_id, description |-> description, tags |-> tags, start_time |-> now]

\* start_session without its check for an active session
start_session_Unchecked(db, description, tags, now1, now2) ==
  IF strip(description) = <<>> THEN Raise(db, EmptyDescription)
  ELSE LET created == create_session(db, description, cleaned_tags(tags), now1)
       IN  Return(created.db,
                  StartView(created.id, description, cleaned_tags(tags), now2))

\* start_session validating the description before it looks for an active
\* session
start_session_DescriptionFirst(db, description, tags, now1, now2) ==
  IF strip(description) = <<>> THEN Raise(db, EmptyDescription)
  ELSE IF ~IsNull(get_active_session(db)) THEN Raise(db, AlreadyActive)
  ELSE LET created == create_session(db, description, cleaned_tags(tags), now1)
       IN  Return(created.db,
                  StartView(created.id, description, cleaned_tags(tags), now2))

\* start_session testing the description as given ("if not description")
start_session_Unstripped(db, description, tags, now1, now2) ==
  IF ~IsNull(get_active_session(db)) THEN Raise(db, AlreadyActive)
  ELSE IF description = <<>> THEN Raise(db, EmptyDescription)
  ELSE LET created == create_session(db, description, cleaned_tags(tags), now1)
       IN  Return(created.db,
                  StartView(created.id, description, cleaned_tags(tags), now2))

\* start_session returning the tags as given instead of the cleaned ones
start_session_RawTags(db, description, tags, now1, now2) ==
  IF ~IsNull(get_active_session(db)) THEN Raise(db, AlreadyActive)
  ELSE IF strip(description) = <<>> THEN Raise(db, EmptyDescription)
  ELSE LET created == create_session(db, description, cleaned_tags(tags), now1)
       IN  Return(created.db, StartView(created.id, description, tags, now2))

\* SessionManager.start_session; now1 is the clock reading create_session
\* takes, now2 the one taken for the returned dict
start_session(db, description, tags, now1, now2) ==
  IF ~IsNull(get_active_session(db)) THEN Raise(db, AlreadyActive)
  ELSE IF strip(description) = <<>> THEN Raise(db, EmptyDescription)
  ELSE LET created == create_session(db, description, cleaned_tags(tags), now1)
       IN  Return(created.db,
                  StartView(created.id, description, cleaned_tags(tags), now2))

\* the dict stop_session returns; duration is a timedelta, in seconds here
StopView(active, notes, now) ==
  [id          |-> active.id,
   description |-> active.description,
   duration    |-> now - fromisoformat(active.start_time),
   notes       |-> notes]

\* stop_session ending the latest session when none is active
stop_session_Latest(db, notes, now1, now2) ==
  IF Ids(db) = {} THEN Raise(db, NoActiveSession)
  ELSE LET active == RowDict(db, First(db, Ids(db)))
           ended  == end_session(db, active.id, notes, now1)
       IN  Return(ended.db, StopView(active, notes, now2))

\* SessionManager.stop_session; now1 is the clock reading end_session takes,
\* now2 the one taken for the returned duration
stop_session(db, notes, now1, now2) ==
  IF IsNull(get_active_session(db)) THEN Raise(db, NoActiveSession)
  ELSE LET active == Val(get_active_session(db))
           ended  == end_session(db, active.id, notes, now1)
       IN  IF ~ended.ok THEN Raise(ended.db, FailedToStop)
           ELSE Return(ended.db, StopView(active, notes, now2))

\* the 'tags' entry of a dict after "if session['tags']: split(',')": a list
\* of tags, or the GROUP_CONCAT value left as it was (None, or empty text)
TagsEntry(concat) ==
  IF IsNull(concat) THEN [kind |-> "None", text |-> <<>>, list |-> <<>>]
  ELSE IF Val(concat) = <<>> THEN [kind |-> "str", text |-> <<>>, list |-> <<>>]
  ELSE [kind |-> "list", text |-> <<>>, list |-> split(Val(concat), ",")]

\* SessionManager.get_current_session: None, or the active session's dict
get_current_session(db) ==
  IF IsNull(get_active_session(db)) THEN Return(db, NULL)
  ELSE LET session == Val(get_active_session(db))
       IN  Return(db, Some([session EXCEPT !.tags = TagsEntry(session.tags)]))

\* the loop list_sessions and search_sessions end with: 'tags' becomes the
\* list of the pieces of the GROUP_CONCAT text, [] when that is None or empty
SplitTags(rows) ==
  [k \in 1..Len(rows) |->
     [rows[k] EXCEPT !.tags = IF IsNull(@) \/ Val(@) = <<>> THEN <<>>
                              ELSE split(Val(@), ",")]]

\* datetime.now().replace(hour=0, minute=0, second=0, microsecond=0)
Midnight(now) == now - (now % 86400)

\* the start_date list_sessions resolves (days counts as set when non-zero)
ListStart(days, today, now1) ==
  IF today THEN Some(Midnight(now1))
  ELSE IF ~IsNull(days) /\ Val(days) # 0 THEN Some(now1 - Val(days) * 86400)
  ELSE NULL

\* the end_date list_sessions resolves
ListEnd(days, today, now2) ==
  IF today \/ (~IsNull(days) /\ Val(days) # 0) THEN Some(now2) ELSE NULL

\* SessionManager.list_sessions; now1 and now2 are the clock readings taken
\* for start_date and end_date when today or days is set
list_sessions(db, days, today, tag, limit, now1, now2) ==
  Return(db, SplitTags(get_sessions(db, ListStart(days, today, now1),
                                    ListEnd(days, today, now2), tag, NULL, limit)))

\* SessionManager.search_sessions
search_sessions(db, search_term, limit) ==
  Return(db, SplitTags(get_sessions(db, NULL, NULL, NULL, Some(search_term), limit)))

\* SessionManager.delete_session
delete_session_service(db, session_id) ==
  Return(delete_session(db, session_id).db, delete_session(db, session_id).ok)

RECURSIVE SumDuration(_)
\* sum(s['duration'] for s in completed_sessions)
SumDuration(rows) ==
  IF rows = <<>> THEN 0 ELSE Val(Head(rows).duration) + SumDuration(Tail(rows))

\* SessionManager.get_session_stats; avg_minutes is the quotient
\* total_minutes / session_count, kept as <<numerator, denominator>>
get_session_stats(db, days, today, now1, now2) ==
  LET listed    == list_sessions(db, days, today, NULL, StatsLimit, now1, now2).ret
      completed == SelectSeq(listed,
                             LAMBDA r : ~IsNull(r.duration) /\ Val(r.duration) # 0)
      total     == SumDuration(completed)
  IN  Return(db, [total_minutes |-> total,
                  session_count |-> Len(completed),
                  avg_minutes   |-> IF Len(completed) > 0
                                    THEN <<total, Len(completed)>> ELSE <<0, 1>>,
                  total_sessions_including_active |-> Len(listed)])

(* ---------------------- the report builder (report.py) --------------- *)

\* the limit generate_summary fetches sessions with
SummaryLimit == 1000

\* the number of recent sessions a summary lists
RecentLimit == 10

\* the width a description is cut to in a summary line
DescriptionWidth == 40

\* ReportGenerator._get_period_description
PeriodDescription(start_date, end_date, days) ==
  IF days = Some(1) THEN "Today"
  ELSE IF days = Some(7) THEN "Last 7 Days"
  ELSE IF days = Some(30) THEN "Last 30 Days"
  ELSE IF ~IsNull(start_date) /\ ~IsNull(end_date) THEN "range"
  ELSE "All Time"

\* a "Time by Tag" line whose share is computed without the test of the total
TagLine_Unguarded(group, total_minutes) ==
  [tag        |-> group.tag,
   minutes    |-> group.total_minutes,
   count      |-> group.session_count,
   percentage |-> <<group.total_minutes * 100, total_minutes>>]

\* a "Time by Tag" line: the tag, its minutes and sessions, and its share
\* minutes / total_minutes * 100 kept as <<numerator, denominator>> (0 when the
\* total is not positive)
TagLine(group, total_minutes) ==
  [tag        |-> group.tag,
   minutes    |-> group.total_minutes,
   count      |-> group.session_count,
   percentage |-> IF total_minutes > 0
                  THEN <<group.total_minutes * 100, total_minutes>> ELSE <<0, 1>>]

\* a "Recent Sessions" line
RecentLine(session) ==
  [start_time  |-> fromisoformat(session.start_time),
   duration    |-> Val(session.duration),
   description |-> SubSeq(session.description, 1,
                          IF Len(session.description) < DescriptionWidth
                          THEN Len(session.description) ELSE DescriptionWidth),
   tags        |-> IF IsNull(session.tags) \/ Val(session.tags) = <<>> THEN <<>>
                   ELSE split(Val(session.tags), ",")]

\* ReportGenerator.generate_summary: the figures the report text is made of
\* (durations in minutes, before format_duration puts them into words); now1
\* and now2 are the clock readings taken when days is set
generate_summary(db, days, start_date, end_date, by_tag, now1, now2) ==
  LET daysSet   == ~IsNull(days) /\ Val(days) # 0
      from      == IF daysSet THEN Some(now1 - Val(days) * 86400) ELSE start_date
      to        == IF daysSet THEN Some(now2) ELSE end_date
      listed    == get_sessions(db, from, to, NULL, NULL, SummaryLimit)
      completed == SelectSeq(listed,
                             LAMBDA r : ~IsNull(r.duration) /\ Val(r.duration) # 0)
      total     == SumDuration(completed)
      summary   == get_tag_summary(db, from, to)
  IN  Return(db,
        [period         |-> PeriodDescription(from, to, days),
         total_sessions |-> Len(completed),
         total_minutes  |-> total,
         average        |-> IF Len(completed) > 0
                            THEN <<total, Len(completed)>> ELSE <<0, 1>>,
         tag_lines      |-> IF by_tag
                            THEN [k \in 1..Len(summary) |-> TagLine(summary[k], total)]
                            ELSE <<>>,
         recent         |-> IF by_tag THEN <<>>
                            ELSE [k \in 1..Len(Limit(completed, RecentLimit)) |->
                                    RecentLine(completed[k])]])

\* the limit generate_day_report fetches sessions with
DayLimit == 100

\* the list "completed" of generate_day_report: the sessions get_sessions
\* returns for start_of_day <= start_time <= start_of_day + 1 day that have a
\* truthy duration
day_completed(db, date) ==
  LET start_of_day == Midnight(date)
      end_of_day   == start_of_day + 86400
      listed       == get_sessions(db, Some(start_of_day), Some(end_of_day),
                                   NULL, NULL, DayLimit)
  IN  SelectSeq(listed, LAMBDA r : ~IsNull(r.duration) /\ Val(r.duration) # 0)

\* the lines of one session in a day report: its time range, duration, task,
\* tags and notes
DayLine(session) ==
  [start_time  |-> fromisoformat(session.start_time),
   end_time    |-> IF IsNull(session.end_time) THEN NULL
                   ELSE Some(fromisoformat(Val(session.end_time))),
   duration    |-> Val(session.duration),
   description |-> session.description,
   tags        |-> IF IsNull(session.tags) \/ Val(session.tags) = <<>> THEN <<>>
                   ELSE split(Val(session.tags), ","),
   notes       |-> session.notes]

\* ReportGenerator.generate_day_report: the figures the report text is made
\* of
generate_day_report(db, date) ==
  LET completed == day_completed(db, date)
  IN  Return(db,
        [day           |-> date \div 86400,
         sessions      |-> Len(completed),
         total_minutes |-> SumDuration(completed),
         lines         |-> [k \in 1..Len(completed) |-> DayLine(completed[k])]])

(* --------------------------- the commands (cli.py) -------------------- *)

\* the database file Storage opens when it is given no path
DefaultPath == "~/.devlog/devlog.db"

\* Storage.__init__: the path of the database file.  The environment is not
\* consulted.
StoragePath(db_path) == IF IsNull(db_path) THEN DefaultPath ELSE Val(db_path)

\* limit's default in the commands list and search
CliLimit == 20

\* the line the command status prints when no session is active
NoActiveStatus == "No active session"

\* the NameError that ends `import devlog.cli`
OptionalNotDefined == "name 'Optional' is not defined"

\* int(duration.total_seconds() / 60): the minutes a command shows
ShownMinutes(seconds) == TruncDiv(seconds, 60)

\* what a command leaves: the database, the process's exit code, the lines
\* printed (each by its fixed text) and the numbers shown in them
Exit(db, exit_code, output, shown) ==
  [db     |-> db,
   raised |-> NoError,
   ret    |-> [exit_code |-> exit_code, output |-> output, shown |-> shown]]

\* the command stop
cli_stop(db, notes, now1, now2) ==
  LET session == stop_session(db, notes, now1, now2)
  IN  IF session.raised # NoError
      THEN Exit(session.db, 1, <<"Error", session.raised, "Aborted!">>, <<>>)
      ELSE Exit(session.db, 0,
                <<"Session stopped", "Task", "Duration">>
                  \o (IF ~IsNull(notes) /\ Val(notes) # <<>>
                      THEN <<"Notes">> ELSE <<>>),
                <<ShownMinutes(session.ret.duration)>>)

\* the command status; now is its clock reading
cli_status(db, now) ==
  LET session == get_current_session(db).ret
  IN  IF ~IsNull(session)
      THEN Exit(db, 0,
                <<"Active Session", "Task", "Started", "Duration">>
                  \o (IF Val(session).tags.kind = "list"
                      THEN <<"Tags">> ELSE <<>>),
                <<ShownMinutes(now - fromisoformat(Val(session).start_time))>>)
      ELSE Exit(db, 0, <<NoActiveStatus, "Start a session with">>, <<>>)

\* the command list
cli_list(db, today, days, tag, limit, now1, now2) ==
  LET listed == list_sessions(db, days, today, tag, limit, now1, now2).ret
  IN  IF listed = <<>> THEN Exit(db, 0, <<"No sessions found">>, <<>>)
      ELSE Exit(db, 0,
                <<"table">> \o (IF Len(listed) >= limit
                                THEN <<"Showing most recent sessions">> ELSE <<>>),
                <<Len(listed)>>)

(* the command start.  Its body calls start_session(description, list(tags)),
   and at that point the name list is the command list, defined further down
   in the module, not the builtin: list(tags) runs the command list with the
   tags as its command line and ends the process with that command's exit
   code.  start_session is never called. *)

\* the options of the command list, --help being click's own
ListOption ==
  [today |-> <<"-", "-", "t", "o", "d", "a", "y">>,
   days  |-> <<"-", "-", "d", "a", "y", "s">>,
   tag   |-> <<"-", "-", "t", "a", "g">>,
   limit |-> <<"-", "-", "l", "i", "m", "i", "t">>,
   help  |-> <<"-", "-", "h", "e", "l", "p">>]

\* int(s) as click applies it to the value of --days and --limit: Some(n)
\* for digits, with single underscores between them, after an optional sign
\* and within whitespace; NULL where int() raises ValueError
ParseInt(s) ==
  LET digits == <<"0", "1", "2", "3", "4", "5", "6", "7", "8", "9">>
      IsDigit(c) == \E d \in 1..10 : digits[d] = c
      text == strip(s)
      body == IF text # <<>> /\ text[1] \in {"+", "-"} THEN Tail(text) ELSE text
      RECURSIVE Value(_, _)
      Value(rest, acc) ==
        IF rest = <<>> THEN acc
        ELSE IF Head(rest) = "_" THEN Value(Tail(rest), acc)
        ELSE Value(Tail(rest),
                   acc * 10 + ((CHOOSE d \in 1..10 : digits[d] = Head(rest)) - 1))
  IN  IF /\ body # <<>>
         /\ \A i \in 1..Len(body) : IsDigit(body[i]) \/ body[i] = "_"
         /\ IsDigit(body[1]) /\ IsDigit(body[Len(body)])
         /\ \A i \in 1..(Len(body) - 1) : ~(body[i] = "_" /\ body[i + 1] = "_")
      THEN Some(IF text[1] = "-" THEN 0 - Value(body, 0) ELSE Value(body, 0))
      ELSE NULL

RECURSIVE ParseListArgs(_, _)
\* click's parser over the words of a command line of list.  parsed holds
\* what it has read: the options' values as given last (NULL when not
\* given), the number of words that are no option, and the usage error that
\* ended the parsing ("" for none).
ParseListArgs(words, parsed) ==
  IF words = <<>> THEN parsed
  ELSE
    LET word == Head(words)
        rest == Tail(words)
        eq   == IF \E i \in 1..Len(word) : word[i] = "="
                THEN CHOOSE i \in 1..Len(word) :
                       word[i] = "=" /\ \A j \in 1..(i - 1) : word[j] # "="
                ELSE 0
        name == IF eq > 0 THEN SubSeq(word, 1, eq - 1) ELSE word
        short == IF word[2] = "d" THEN ListOption.days
                 ELSE IF word[2] = "t" THEN ListOption.tag
                 ELSE IF word[2] = "l" THEN ListOption.limit ELSE <<>>
        Store(opt, value) ==
          IF opt = ListOption.days THEN [parsed EXCEPT !.days = Some(value)]
          ELSE IF opt = ListOption.tag THEN [parsed EXCEPT !.tag = Some(value)]
          ELSE [parsed EXCEPT !.limit = Some(value)]
    IN  IF word = <<"-", "-">>
        THEN [parsed EXCEPT !.extra = @ + Len(rest)]
        ELSE IF ~(Len(word) > 1 /\ word[1] = "-")
        THEN ParseListArgs(rest, [parsed EXCEPT !.extra = @ + 1])
        ELSE IF name \in {ListOption.today, ListOption.help}
        THEN IF eq > 0
             THEN [parsed EXCEPT !.error = "does not take a value"]
             ELSE IF name = ListOption.today
             THEN ParseListArgs(rest, [parsed EXCEPT !.today = TRUE])
             ELSE ParseListArgs(rest, [parsed EXCEPT !.help = TRUE])
        ELSE IF name \in {ListOption.days, ListOption.tag, ListOption.limit}
        THEN IF eq > 0
             THEN ParseListArgs(rest, Store(name, SubSeq(word, eq + 1, Len(word))))
             ELSE IF rest = <<>>
             THEN [parsed EXCEPT !.error = "requires an argument"]
             ELSE ParseListArgs(Tail(rest), Store(name, Head(rest)))
        ELSE IF word[2] = "-" \/ short = <<>>
        THEN [parsed EXCEPT !.error = "No such option"]
        ELSE IF Len(word) > 2
        THEN ParseListArgs(rest, Store(short, SubSeq(word, 3, Len(word))))
        ELSE IF rest = <<>>
        THEN [parsed EXCEPT !.error = "requires an argument"]
        ELSE ParseListArgs(Tail(rest), Store(short, Head(rest)))

\* the command start: description is taken from the command line and not
\* used; the tags are the command line of list, which click's main() runs:
\* parser errors first, then --help, then the conversion of --days and
\* --limit to int, then the words left over, then the body of list.  A usage
\* error exits with code 2 and prints the usage lines and the error; the
\* parser's errors about an option's value are raised without the command's
\* context and print the error alone.
cli_start(db, description, tagsArg, now1, now2) ==
  LET parsed == ParseListArgs(tagsArg,
                  [today |-> FALSE, help |-> FALSE, days |-> NULL, tag |-> NULL,
                   limit |-> NULL, extra |-> 0, error |-> ""])
      days   == IF IsNull(parsed.days) THEN Some(0) ELSE ParseInt(Val(parsed.days))
      limit  == IF IsNull(parsed.limit) THEN Some(CliLimit)
                ELSE ParseInt(Val(parsed.limit))
      UsageError(error) == Exit(db, 2, <<"Usage", "Try", error>>, <<>>)
  IN  IF parsed.error \in {"does not take a value", "requires an argument"}
      THEN Exit(db, 2, <<parsed.error>>, <<>>)
      ELSE IF parsed.error # "" THEN UsageError(parsed.error)
      ELSE IF parsed.help THEN Exit(db, 0, <<"Usage", "Options">>, <<>>)
      ELSE IF IsNull(days) \/ IsNull(limit) THEN UsageError("Invalid value")
      ELSE IF parsed.extra = 1 THEN UsageError("Got unexpected extra argument")
      ELSE IF parsed.extra > 1 THEN UsageError("Got unexpected extra arguments")
      ELSE cli_list(db, parsed.today,
                    IF IsNull(parsed.days) THEN NULL ELSE days,
                    parsed.tag, Val(limit), now1, now2)

\* the command search
cli_search(db, search_term, limit) ==
  LET found == search_sessions(db, search_term, limit).ret
  IN  IF found = <<>> THEN Exit(db, 0, <<"No sessions found matching">>, <<>>)
      ELSE Exit(db, 0, <<"Found">>, <<Len(found)>>)

\* the command report, no --from and no --to given
cli_report(db, today, week, month, days, by_tag, now1, now2) ==
  LET period  == IF today THEN Some(1)
                 ELSE IF week THEN Some(7)
                 ELSE IF month THEN Some(30)
                 ELSE days
      summary == generate_summary(db, period, NULL, NULL, by_tag, now1, now2).ret
  IN  Exit(db, 0, <<"DevLog Report", summary.period>>,
           <<summary.total_sessions, summary.total_minutes>>)

\* the command delete, confirmed
cli_delete(db, session_id) ==
  LET deleted == delete_session_service(db, session_id)
  IN  IF deleted.ret THEN Exit(deleted.db, 0, <<"deleted">>, <<session_id>>)
      ELSE Exit(deleted.db, 0, <<"not found">>, <<session_id>>)

\* how the interpreter treats the annotations of a def: evaluated when the
\* def runs (Python 3.8 to 3.13), or kept for later (from Python 3.14 on)
Annotations == {"eager", "deferred"}

\* a command as a process: the interpreter imports devlog.cli, which imports
\* devlog.report, whose annotations name Optional though the module imports
\* only Dict and List from typing.  Where annotations are evaluated at once
\* the import ends in NameError, a traceback is printed and the process exits
\* with code 1 before the command has run.
Process(annotations, db, out) ==
  IF annotations = "eager"
  THEN [db     |-> db,
        raised |-> OptionalNotDefined,
        ret    |-> [exit_code |-> 1,
                    output    |-> <<"Traceback", OptionalNotDefined>>,
                    shown     |-> <<>>]]
  ELSE out

(* --------------------------- the state machine ------------------------ *)

\* sessions, tags, seq: the database file (tables sessions and tags, and the
\* AUTOINCREMENT counter of table sessions) as committed.  last: the call
\* finished last, with its arguments, the error it raised and the value it
\* returned.  procs: for each process that runs a command next to another
\* one, the place it has reached in its call and its open transaction.
\* environ: the variable DEVLOG_DB_PATH of the commands' environment (NULL
\* when it is not set) and the content of the database file it names.
VARIABLES sessions, tags, seq, last, procs, environ

\* the call that takes no argument
NoArgs == [none |-> TRUE]

\* the state, last by its parts: the returned value comes after the call it
\* belongs to, since its shape differs from call to call
vars ==
  <<sessions, tags, seq, procs, environ,
    last.op, last.args, last.raised, last.ret>>

\* the database as the operators take it
DB == [sessions |-> sessions, tags |-> tags, seq |-> seq]

\* the processes that may run a command at the same time
Procs == {1, 2}

\* a process that is in no call
Idle ==
  [pc |-> "idle", description |-> <<>>, tags |-> <<>>, pending |-> <<>>,
   notes |-> NULL, id |-> 0, active |-> NULL, ok |-> FALSE, work |-> EmptyDB]

\* a call's outcome becomes the next state, when the call runs from its first
\* statement to its return with no other process in between
Apply(op, args, out) ==
  /\ sessions' = out.db.sessions
  /\ tags' = out.db.tags
  /\ seq' = out.db.seq
  /\ last' = [op |-> op, args |-> args, raised |-> out.raised, ret |-> out.ret]
  /\ UNCHANGED <<procs, environ>>

\* a fresh database file, nothing called yet
Init ==
  /\ sessions = EmptyDB.sessions
  /\ tags = EmptyDB.tags
  /\ seq = EmptyDB.seq
  /\ last = [op |-> "init", args |-> NoArgs, raised |-> NoError, ret |-> NULL]
  /\ procs = [p \in Procs |-> Idle]
  /\ environ = [DEVLOG_DB_PATH |-> NULL, file |-> EmptyDB]

(* inputs of the lifecycle specification *)

\* descriptions: empty, blank, and one with text
Descriptions == {<<>>, <<" ">>, <<"x">>}

\* tag lists: none; a blank tag; a tag to trim and lower-case that holds a
\* comma, next to a blank one
TagLists ==
  { <<>>,
    << <<" ">> >>,
    << <<" ", "A", ",", "b">>, <<" ">> >> }

\* notes: not given, or a text
NotesValues == {NULL, Some(<<"n">>)}

\* the tag filter of list: not given, or a tag in another spelling
TagFilters == {NULL, Some(<<"A", " ">>)}

\* limits: one row, or the default
Limits == {1, DefaultLimit}

\* search terms: a letter in the other case, and a LIKE wildcard
SearchTerms == {<<"X">>, <<"_">>}

\* ids a caller may name: every id given out so far and the next one
NamedIds == 1..(seq + 1)

(* one action per operation of the lifecycle service *)

\* start(description, tags); creating stops at MaxSessions sessions.  The
\* clock is read only by a call that gets as far as the insert.
Start(descriptions, taglists) ==
  \E description \in descriptions, tagsArg \in taglists :
    IF start_session(DB, description, tagsArg, 0, 0).raised # NoError
    THEN Apply("start_session", [description |-> description, tags |-> tagsArg],
               start_session(DB, description, tagsArg, 0, 0))
    ELSE /\ seq < MaxSessions
         /\ \E now1 \in Readings, now2 \in Readings :
              Apply("start_session",
                    [description |-> description, tags |-> tagsArg],
                    start_session(DB, description, tagsArg, now1, now2))

\* stop(notes); the clock is read only when a session is there to end
Stop ==
  \E notes \in NotesValues :
    IF stop_session(DB, notes, 0, 0).raised # NoError
    THEN Apply("stop_session", [notes |-> notes], stop_session(DB, notes, 0, 0))
    ELSE \E now1 \in Readings, now2 \in Readings :
           Apply("stop_session", [notes |-> notes],
                 stop_session(DB, notes, now1, now2))

\* getCurrent()
GetCurrent ==
  Apply("get_current_session", NoArgs, get_current_session(DB))

\* list(tag, limit), neither today nor days given
List ==
  \E tag \in TagFilters, limit \in Limits :
    Apply("list_sessions", [tag |-> tag, limit |-> limit],
          list_sessions(DB, NULL, FALSE, tag, limit, 0, 0))

\* search(term)
Search ==
  \E term \in SearchTerms :
    Apply("search_sessions", [search_term |-> term],
          search_sessions(DB, term, DefaultLimit))

\* delete(id)
Delete ==
  \E id \in NamedIds :
    Apply("delete_session", [session_id |-> id], delete_session_service(DB, id))

\* getStats()
GetStats ==
  Apply("get_session_stats", NoArgs, get_session_stats(DB, NULL, FALSE, 0, 0))

Next ==
  \/ Start(Descriptions, TagLists)
  \/ Stop
  \/ GetCurrent
  \/ List
  \/ Search
  \/ Delete
  \/ GetStats

\* the lifecycle service called by one process, one operation at a time
Spec == Init /\ [][Next]_vars

(* inputs of the tag round-trip specification *)

\* descriptions: empty, blank, and two with text
RoundTripDescriptions == {<<>>, <<" ">>, <<"x">>, <<" ", "Y", " ">>}

\* tags: plain, with trailing or leading whitespace, upper case, blank, and
\* one holding a comma
RoundTripTags ==
  { <<"a">>, <<"B", " ">>, <<" ", "c">>, <<" ">>, <<"a", ",", "b">> }

\* every list of at most MaxTags of these tags
RoundTripTagLists ==
  UNION {[1..n -> RoundTripTags] : n \in 0..MaxTags}

\* the first start on a fresh database
StartFresh == seq = 0 /\ Start(RoundTripDescriptions, RoundTripTagLists)

NextRoundTrip ==
  \/ StartFresh
  \/ GetCurrent

\* start on a fresh database, with every tag list, followed by getCurrent
SpecRoundTrip == Init /\ [][NextRoundTrip]_vars

(* inputs of the tag filter specification *)

\* sessions ever created in one run of the tag filter specification
MaxListed == 3

\* tag lists: one tag, another tag, and both
ListTagLists ==
  { << <<"a">> >>, << <<"b">> >>, << <<"a">>, <<"b">> >> }

\* the tag filter of list: not given, the empty text, and tags in the stored
\* spelling and in another one
ListTagFilters == {NULL, Some(<<>>), Some(<<"A", " ">>), Some(<<"b">>)}

\* start("x", tags); creating stops at MaxListed sessions
StartListed ==
  \E tagsArg \in ListTagLists :
    IF start_session(DB, <<"x">>, tagsArg, 0, 0).raised # NoError
    THEN Apply("start_session", [description |-> <<"x">>, tags |-> tagsArg],
               start_session(DB, <<"x">>, tagsArg, 0, 0))
    ELSE /\ seq < MaxListed
         /\ \E now1 \in Readings, now2 \in Readings :
              Apply("start_session", [description |-> <<"x">>, tags |-> tagsArg],
                    start_session(DB, <<"x">>, tagsArg, now1, now2))

\* stop(), no notes given, the clock reading ClockSpan (end_time and duration
\* play no part in the tag filter)
StopListed ==
  Apply("stop_session", [notes |-> NULL],
        stop_session(DB, NULL, ClockSpan, ClockSpan))

\* list(tag, limit), neither today nor days given
ListByTag ==
  \E tag \in ListTagFilters, limit \in Limits :
    Apply("list_sessions", [tag |-> tag, limit |-> limit],
          list_sessions(DB, NULL, FALSE, tag, limit, 0, 0))

NextList ==
  \/ StartListed
  \/ StopListed
  \/ ListByTag

\* sessions with one or two tags started and stopped, and listed by tag
SpecList == Init /\ [][NextList]_vars

(* inputs of the report specification *)

\* tag lists: none, one tag, two tags, and one tag twice
ReportTagLists ==
  { <<>>, << <<"a">> >>, << <<"a">>, <<"b">> >>, << <<"a">>, <<"a">> >> }

\* days: not given, or the last day
ReportDays == {NULL, Some(1)}

\* report(days, by_tag); the clock is read only when days is set
Summary ==
  \E days \in ReportDays, by_tag \in BOOLEAN :
    \E now1 \in (IF IsNull(days) THEN {0} ELSE Readings),
       now2 \in (IF IsNull(days) THEN {0} ELSE Readings) :
      Apply("generate_summary",
            [days |-> days, by_tag |-> by_tag, now1 |-> now1, now2 |-> now2],
            generate_summary(DB, days, NULL, NULL, by_tag, now1, now2))

NextReport ==
  \/ Start({<<"x">>}, ReportTagLists)
  \/ Stop
  \/ Summary

\* sessions with several tags started and stopped, and summarised
SpecReport == Init /\ [][NextReport]_vars

(* the summary over sessions of any length *)

\* tag lists: none, or one tag
SummaryTagLists == { <<>>, << <<"a">> >> }

\* stop(), no notes given, at either clock reading (both clock readings of
\* the call are the same)
StopUnnoted ==
  IF stop_session(DB, NULL, 0, 0).raised # NoError
  THEN Apply("stop_session", [notes |-> NULL], stop_session(DB, NULL, 0, 0))
  ELSE \E now \in Readings :
         Apply("stop_session", [notes |-> NULL], stop_session(DB, NULL, now, now))

NextSummary ==
  \/ Start({<<"x">>}, SummaryTagLists)
  \/ StopUnnoted
  \/ Summary

\* sessions of zero, positive and negative length, with or without a tag,
\* and summarised
SpecSummary == Init /\ [][NextSummary]_vars

(* deleting the session that is active *)

\* delete(id), id being the active session's
DeleteActive ==
  \E id \in ActiveIds(DB) :
    Apply("delete_session", [session_id |-> id], delete_session_service(DB, id))

NextDeleteActive ==
  \/ Start(Descriptions, TagLists)
  \/ Stop
  \/ GetCurrent
  \/ DeleteActive

\* sessions started, stopped and asked for, and the active one deleted
SpecDeleteActive == Init /\ [][NextDeleteActive]_vars

(* inputs of the period specification *)

\* the wall clock over two days: midnight and ClockSpan seconds later, on the
\* first day and on the next
PeriodReadings == {0, ClockSpan, 86400, 86400 + ClockSpan}

\* days: not given, none, or the last day
PeriodDays == {NULL, Some(0), Some(1)}

\* start("x", []) at a reading of the two days; creating stops at MaxSessions
\* sessions
StartAt ==
  IF start_session(DB, <<"x">>, <<>>, 0, 0).raised # NoError
  THEN Apply("start_session", [description |-> <<"x">>, tags |-> <<>>],
             start_session(DB, <<"x">>, <<>>, 0, 0))
  ELSE /\ seq < MaxSessions
       /\ \E now \in PeriodReadings :
            Apply("start_session", [description |-> <<"x">>, tags |-> <<>>],
                  start_session(DB, <<"x">>, <<>>, now, now))

\* stop() at a reading of the two days
StopAt ==
  IF stop_session(DB, NULL, 0, 0).raised # NoError
  THEN Apply("stop_session", [notes |-> NULL], stop_session(DB, NULL, 0, 0))
  ELSE \E now \in PeriodReadings :
         Apply("stop_session", [notes |-> NULL], stop_session(DB, NULL, now, now))

\* list(days, today) at a reading of the two days (both clock readings of the
\* call are the same)
ListPeriod ==
  \E days \in PeriodDays, today \in BOOLEAN, now \in PeriodReadings :
    Apply("list_sessions",
          [days |-> days, today |-> today, tag |-> NULL,
           limit |-> DefaultLimit, now |-> now],
          list_sessions(DB, days, today, NULL, DefaultLimit, now, now))

\* dayReport(date) for a date of the two days
DayReport ==
  \E date \in PeriodReadings :
    Apply("generate_day_report", [date |-> date], generate_day_report(DB, date))

NextPeriod ==
  \/ StartAt
  \/ StopAt
  \/ ListPeriod
  \/ DayReport

\* sessions started and stopped on two consecutive days, listed by period and
\* reported by day
SpecPeriod == Init /\ [][NextPeriod]_vars

(* the Store called directly, one call at a time *)

\* tag lists: none, and a tag to lower-case and trim
StoreTagLists == { <<>>, << <<"A", " ">> >> }

\* Storage.create_session(description, tags); creating stops at MaxSessions
\* sessions
CreateSession ==
  /\ seq < MaxSessions
  /\ \E tagsArg \in StoreTagLists, now \in Readings :
       Apply("create_session",
             [description |-> <<"x">>, tags |-> tagsArg, now |-> now],
             Return(create_session(DB, <<"x">>, tagsArg, now).db,
                    create_session(DB, <<"x">>, tagsArg, now).id))

\* Storage.end_session(session_id, notes); ended: whether the session had an
\* end_time when the call was made
EndSession ==
  \E id \in NamedIds, notes \in NotesValues, now \in Readings :
    Apply("end_session",
          [session_id |-> id, notes |-> notes, now |-> now,
           ended |-> (id \in Ids(DB) /\ ~IsNull(sessions[id].end_time))],
          Return(end_session(DB, id, notes, now).db,
                 end_session(DB, id, notes, now).ok))

\* Storage.delete_session(session_id)
DeleteSession ==
  \E id \in NamedIds :
    Apply("delete_session", [session_id |-> id],
          Return(delete_session(DB, id).db, delete_session(DB, id).ok))

NextStore ==
  \/ CreateSession
  \/ EndSession
  \/ DeleteSession

\* the Store's mutating calls in any order, on any id
SpecStore == Init /\ [][NextStore]_vars

(* the Store's filtered query *)

\* descriptions: two texts, one letter each
QueryDescriptions == {<<"x">>, <<"y">>}

\* the filters of get_sessions: each not given, or a value
QueryStartDates == {NULL, Some(ClockSpan)}

QueryEndDates == {NULL, Some(0)}

QuerySearchTerms == {NULL, Some(<<"X">>), Some(<<"_">>)}

\* Storage.create_session(description, tags) with either description; creating
\* stops at MaxSessions sessions
CreateQueried ==
  /\ seq < MaxSessions
  /\ \E description \in QueryDescriptions, tagsArg \in StoreTagLists,
        now \in Readings :
       Apply("create_session",
             [description |-> description, tags |-> tagsArg, now |-> now],
             Return(create_session(DB, description, tagsArg, now).db,
                    create_session(DB, description, tagsArg, now).id))

\* Storage.get_sessions(start_date, end_date, tag, search_term, limit)
GetSessions ==
  \E start_date \in QueryStartDates, end_date \in QueryEndDates,
     tag \in TagFilters, search_term \in QuerySearchTerms, limit \in Limits :
    Apply("get_sessions",
          [start_date |-> start_date, end_date |-> end_date, tag |-> tag,
           search_term |-> search_term, limit |-> limit],
          Return(DB, get_sessions(DB, start_date, end_date, tag, search_term, limit)))

NextQuery ==
  \/ CreateQueried
  \/ EndSession
  \/ GetSessions

\* sessions created and ended through the Store, and queried with every
\* combination of filters
SpecQuery == Init /\ [][NextQuery]_vars

(* the commands, run as processes in an environment *)

\* the file the test fixture creates and names in DEVLOG_DB_PATH
TmpPath == "tmp.db"

\* the database file at a path
FileAt(path) == IF path = DefaultPath THEN DB ELSE environ.file

\* the database a command works on: each command makes its SessionManager()
\* or Storage() without a path
Opened == FileAt(StoragePath(NULL))

\* a command has run: its database file is as the command left it, and its
\* exit code and output are recorded
Run(command, args, out) ==
  /\ IF StoragePath(NULL) = DefaultPath
     THEN /\ sessions' = out.db.sessions
          /\ tags' = out.db.tags
          /\ seq' = out.db.seq
          /\ UNCHANGED environ
     ELSE /\ environ' = [environ EXCEPT !.file = out.db]
          /\ UNCHANGED <<sessions, tags, seq>>
  /\ last' = [op |-> command, args |-> args, raised |-> out.raised, ret |-> out.ret]
  /\ UNCHANGED procs

\* the fixture runner of the tests: a new, empty temporary file, and
\* DEVLOG_DB_PATH set to its name
Runner ==
  /\ environ' = [DEVLOG_DB_PATH |-> Some(TmpPath), file |-> EmptyDB]
  /\ last' = [op |-> "runner", args |-> NoArgs, raised |-> NoError, ret |-> NULL]
  /\ UNCHANGED <<sessions, tags, seq, procs>>

\* devlog start x [--tags a | --tags --today]: no tag, a tag, and a tag that
\* is an option of list
CliStart ==
  \E annotations \in Annotations,
     tagsArg \in {<<>>, << <<"a">> >>, <<ListOption.today>>}, now \in Readings :
    Run("start",
        [annotations |-> annotations, description |-> <<"x">>, tags |-> tagsArg],
        Process(annotations, Opened,
                cli_start(Opened, <<"x">>, tagsArg, now, now)))

\* devlog stop
CliStop ==
  \E annotations \in Annotations, now1 \in Readings, now2 \in Readings :
    Run("stop", [annotations |-> annotations, notes |-> NULL],
        Process(annotations, Opened, cli_stop(Opened, NULL, now1, now2)))

\* devlog status
CliStatus ==
  \E annotations \in Annotations, now \in Readings :
    Run("status", [annotations |-> annotations],
        Process(annotations, Opened, cli_status(Opened, now)))

\* devlog list
CliList ==
  \E annotations \in Annotations :
    Run("list", [annotations |-> annotations],
        Process(annotations, Opened,
                cli_list(Opened, FALSE, NULL, NULL, CliLimit, 0, 0)))

\* devlog search x
CliSearch ==
  \E annotations \in Annotations :
    Run("search", [annotations |-> annotations, search_term |-> <<"x">>],
        Process(annotations, Opened, cli_search(Opened, <<"x">>, CliLimit)))

\* devlog report [--by-tag]
CliReport ==
  \E annotations \in Annotations, by_tag \in BOOLEAN :
    Run("report", [annotations |-> annotations, by_tag |-> by_tag],
        Process(annotations, Opened,
                cli_report(Opened, FALSE, FALSE, FALSE, NULL, by_tag, 0, 0)))

\* devlog delete id --yes
CliDelete ==
  \E annotations \in Annotations, id \in 1..(Opened.seq + 1) :
    Run("delete", [annotations |-> annotations, session_id |-> id],
        Process(annotations, Opened, cli_delete(Opened, id)))

NextCli ==
  \/ Runner
  \/ Start({<<"x">>}, {<<>>, << <<"a">> >>})
  \/ CliStart
  \/ CliStop
  \/ CliStatus
  \/ CliList
  \/ CliSearch
  \/ CliReport
  \/ CliDelete

\* the commands run one after another, in the environment of the tests or
\* outside it.  No command starts a session: the sessions they work on are
\* started by a program that calls SessionManager().start_session, on the
\* default database file.
SpecCli == Init /\ [][NextCli]_vars

(* two processes running commands on the same database file *)

\* sqlite3.OperationalError, raised when the busy timeout runs out
DatabaseLocked == "database is locked"

\* no process other than p is inside a write transaction: a process holds
\* the database's write lock from its first INSERT, UPDATE or DELETE to its
\* commit
NoOtherWriter(p) ==
  \A q \in Procs \ {p} : procs[q].pc \notin {"insert_tags", "end_commit", "delete_commit"}

\* no process other than p holds the database's read lock: a SELECT that has
\* found a row holds it from cursor.execute to the fetch of the row
NoOtherReader(p) ==
  \A q \in Procs \ {p} : procs[q].pc \notin {"start_fetch", "stop_fetch", "end_fetch"}

\* process p moves on inside its call; the committed database stays
Step(p, next) ==
  /\ procs' = [procs EXCEPT ![p] = next]
  /\ UNCHANGED <<sessions, tags, seq, last, environ>>

\* process p's call is over: db is the committed database from now on, and the
\* call's outcome is recorded
Finish(p, op, args, db, raised, ret) ==
  /\ procs' = [procs EXCEPT ![p] = Idle]
  /\ sessions' = db.sessions
  /\ tags' = db.tags
  /\ seq' = db.seq
  /\ last' = [op |-> op, args |-> args, raised |-> raised, ret |-> ret]
  /\ UNCHANGED environ

\* the tags of the starts: two tags, so that a session has more than one row
\* to write
ConcurrentTagLists == { << <<"a">>, <<"b">> >> }

\* the notes of the stops: a text, so that a stop has notes to write
ConcurrentNotes == {Some(<<"n">>)}

\* start_session up to its call of create_session: get_active_session's
\* SELECT is executed on the committed database.  When it finds a row the
\* read lock is held until the row is fetched; when it finds none the
\* description check follows at once.
StartCall(p) ==
  /\ procs[p].pc = "idle"
  /\ \E tagsArg \in ConcurrentTagLists :
       LET checked == start_session(DB, <<"x">>, tagsArg, 0, 0)
       IN  IF ~IsNull(get_active_session(DB))
           THEN Step(p, [Idle EXCEPT !.pc = "start_fetch",
                                     !.description = <<"x">>,
                                     !.tags = tagsArg])
           ELSE IF checked.raised # NoError
           THEN Finish(p, "start_session",
                       [description |-> <<"x">>, tags |-> tagsArg],
                       DB, checked.raised, NULL)
           ELSE Step(p, [Idle EXCEPT !.pc = "insert_session",
                                     !.description = <<"x">>,
                                     !.tags = tagsArg])

\* cursor.fetchone() after a SELECT that found a row: the read lock goes.
\* In start_session the row makes the call raise; in stop_session and in
\* end_session the call goes on to its next statement.
Fetch(p) ==
  /\ procs[p].pc \in {"start_fetch", "stop_fetch", "end_fetch"}
  /\ IF procs[p].pc = "start_fetch"
     THEN Finish(p, "start_session",
                 [description |-> procs[p].description, tags |-> procs[p].tags],
                 DB,
                 start_session(DB, procs[p].description, procs[p].tags, 0, 0).raised,
                 NULL)
     ELSE Step(p, [procs[p] EXCEPT
                     !.pc = IF procs[p].pc = "stop_fetch"
                            THEN "end_select" ELSE "end_update"])

\* INSERT INTO sessions refused by the store when a session is active (a
\* uniqueness constraint on the active session)
InsertSession_RejectsSecondActive(p) ==
  /\ procs[p].pc = "insert_session"
  /\ NoOtherWriter(p)
  /\ seq < MaxSessions
  /\ IF ActiveIds(DB) # {}
     THEN Finish(p, "start_session",
                 [description |-> procs[p].description, tags |-> procs[p].tags],
                 DB, AlreadyActive, NULL)
     ELSE \E now \in Readings :
            Step(p, [procs[p] EXCEPT
                       !.pc = "insert_tags",
                       !.id = create_session(DB, procs[p].description, <<>>, now).id,
                       !.pending = cleaned_tags(procs[p].tags),
                       !.work = create_session(DB, procs[p].description, <<>>, now).db])

\* INSERT INTO sessions on a connection in autocommit mode: the row is
\* committed by the statement itself
InsertSession_Autocommit(p) ==
  /\ procs[p].pc = "insert_session"
  /\ NoOtherWriter(p)
  /\ seq < MaxSessions
  /\ \E now \in Readings :
       /\ procs' = [procs EXCEPT ![p] =
                      [procs[p] EXCEPT
                         !.pc = "insert_tags",
                         !.id = create_session(DB, procs[p].description, <<>>, now).id,
                         !.pending = cleaned_tags(procs[p].tags),
                         !.work = create_session(DB, procs[p].description, <<>>, now).db]]
       /\ sessions' = create_session(DB, procs[p].description, <<>>, now).db.sessions
       /\ seq' = create_session(DB, procs[p].description, <<>>, now).db.seq
       /\ UNCHANGED <<tags, last, environ>>

\* create_session's INSERT INTO sessions: the transaction opens and takes the
\* write lock; the row is in the process's transaction only
InsertSession(p) ==
  /\ procs[p].pc = "insert_session"
  /\ NoOtherWriter(p)
  /\ seq < MaxSessions
  /\ \E now \in Readings :
       Step(p, [procs[p] EXCEPT
                  !.pc = "insert_tags",
                  !.id = create_session(DB, procs[p].description, <<>>, now).id,
                  !.pending = cleaned_tags(procs[p].tags),
                  !.work = create_session(DB, procs[p].description, <<>>, now).db])

\* create_session's INSERT INTO tags, one tag at a time
InsertTag(p) ==
  /\ procs[p].pc = "insert_tags"
  /\ procs[p].pending # <<>>
  /\ Step(p, [procs[p] EXCEPT
                !.pending = Tail(@),
                !.work = [@ EXCEPT !.tags =
                            @ \o NewTagRows(procs[p].id, <<Head(procs[p].pending)>>)]])

\* create_session's conn.commit(), and start_session's return.  The commit
\* needs every read lock gone: while another process holds one, the busy
\* timeout runs out, the commit raises DatabaseLocked and the transaction is
\* rolled back.
CommitCreate(p) ==
  /\ procs[p].pc = "insert_tags"
  /\ procs[p].pending = <<>>
  /\ IF NoOtherReader(p)
     THEN \E now \in Readings :
            Finish(p, "start_session",
                   [description |-> procs[p].description, tags |-> procs[p].tags],
                   procs[p].work, NoError,
                   StartView(procs[p].id, procs[p].description,
                             cleaned_tags(procs[p].tags), now))
     ELSE Finish(p, "start_session",
                 [description |-> procs[p].description, tags |-> procs[p].tags],
                 DB, DatabaseLocked, NULL)

\* stop_session's get_active_session: the SELECT is executed on the
\* committed database, and the row it finds holds the read lock until it is
\* fetched
StopCall(p) ==
  /\ procs[p].pc = "idle"
  /\ \E notes \in ConcurrentNotes :
       IF IsNull(get_active_session(DB))
       THEN Finish(p, "stop_session", [notes |-> notes], DB, NoActiveSession, NULL)
       ELSE Step(p, [Idle EXCEPT !.pc = "stop_fetch",
                                 !.notes = notes,
                                 !.active = get_active_session(DB),
                                 !.id = Val(get_active_session(DB)).id])

\* end_session's SELECT start_time is executed: no row, and end_session
\* returns False; a row, and the read lock is held until it is fetched
EndSelect(p) ==
  /\ procs[p].pc = "end_select"
  /\ IF procs[p].id \notin Ids(DB)
     THEN Finish(p, "stop_session", [notes |-> procs[p].notes],
                 DB, FailedToStop, NULL)
     ELSE Step(p, [procs[p] EXCEPT !.pc = "end_fetch"])

\* end_session's UPDATE: the transaction opens and takes the write lock; the
\* statement rewrites the row with the id, if it is still there
EndUpdate(p) ==
  /\ procs[p].pc = "end_update"
  /\ NoOtherWriter(p)
  /\ \E now \in Readings :
       Step(p, [procs[p] EXCEPT
                  !.pc = "end_commit",
                  !.work = IF procs[p].id \in Ids(DB)
                           THEN end_session(DB, procs[p].id, procs[p].notes, now).db
                           ELSE DB])

\* end_session's conn.commit(), and stop_session's return; DatabaseLocked
\* and a rollback while another process holds a read lock
EndCommit(p) ==
  /\ procs[p].pc = "end_commit"
  /\ IF NoOtherReader(p)
     THEN \E now \in Readings :
            Finish(p, "stop_session", [notes |-> procs[p].notes],
                   procs[p].work, NoError,
                   StopView(Val(procs[p].active), procs[p].notes, now))
     ELSE Finish(p, "stop_session", [notes |-> procs[p].notes],
                 DB, DatabaseLocked, NULL)

\* delete(id) is called
DeleteCall(p) ==
  /\ procs[p].pc = "idle"
  /\ \E id \in NamedIds :
       Step(p, [Idle EXCEPT !.pc = "delete_row", !.id = id])

\* delete_session's DELETE: the transaction opens and takes the write lock
DeleteRow(p) ==
  /\ procs[p].pc = "delete_row"
  /\ NoOtherWriter(p)
  /\ Step(p, [procs[p] EXCEPT
                !.pc = "delete_commit",
                !.ok = delete_session(DB, procs[p].id).ok,
                !.work = delete_session(DB, procs[p].id).db])

\* delete_session's conn.commit() and return; DatabaseLocked and a rollback
\* while another process holds a read lock
DeleteCommit(p) ==
  /\ procs[p].pc = "delete_commit"
  /\ IF NoOtherReader(p)
     THEN Finish(p, "delete_session", [session_id |-> procs[p].id],
                 procs[p].work, NoError, procs[p].ok)
     ELSE Finish(p, "delete_session", [session_id |-> procs[p].id],
                 DB, DatabaseLocked, NULL)

\* a statement that needs the write lock while another process holds it: the
\* busy timeout runs out and the call ends in DatabaseLocked
Busy(p) ==
  /\ procs[p].pc \in {"insert_session", "end_update", "delete_row"}
  /\ ~NoOtherWriter(p)
  /\ LET op == IF procs[p].pc = "insert_session" THEN "start_session"
               ELSE IF procs[p].pc = "end_update" THEN "stop_session"
               ELSE "delete_session"
     IN  Finish(p, op, [locked |-> TRUE], DB, DatabaseLocked, NULL)

NextConcurrent ==
  \E p \in Procs :
    \/ StartCall(p)
    \/ Fetch(p)
    \/ InsertSession(p)
    \/ InsertTag(p)
    \/ CommitCreate(p)
    \/ StopCall(p)
    \/ EndSelect(p)
    \/ EndUpdate(p)
    \/ EndCommit(p)
    \/ DeleteCall(p)
    \/ DeleteRow(p)
    \/ DeleteCommit(p)
    \/ Busy(p)

\* two processes, each running start, stop and delete commands, their
\* statements interleaved in any order.  A process that finds a lock taken
\* either waits (its step is taken once the lock is free) or runs out of its
\* busy timeout.
SpecConcurrent == Init /\ [][NextConcurrent]_vars

(* ------------------------------ the claims ---------------------------- *)

\* a text with no character other than whitespace
OnlyWhitespace(s) == \A i \in 1..Len(s) : IsSpace(s[i])

\* C1: in every reachable state of the lifecycle service run by one process
\* on an initially empty store, at most one session has no end_time.
AtMostOneActive == Cardinality(ActiveIds(DB)) <= 1

\* a second session has been started after the first was completed
AtMostOneActive_Witness ==
  /\ last.op = "start_session"
  /\ last.raised = NoError
  /\ Cardinality(ActiveIds(DB)) = 1
  /\ \E id \in Ids(DB) : ~IsNull(sessions[id].end_time)

\* C2: while a session is active, start fails with AlreadyActive whatever the
\* description and the tags, and leaves both tables as they were.
StartWhileActiveFails ==
  [][(ActiveIds(DB) # {} /\ last'.op = "start_session")
       => /\ last'.raised = AlreadyActive
          /\ sessions' = sessions
          /\ tags' = tags]_vars

\* start was refused as AlreadyActive for an empty description with tags
StartWhileActiveFails_Witness ==
  /\ last.op = "start_session"
  /\ last.raised = AlreadyActive
  /\ last.args.description = <<>>
  /\ last.args.tags # <<>>
  /\ ActiveIds(DB) # {}

\* C3: with no session active, start fails with EmptyDescription exactly
\* when the description holds nothing but whitespace; the failure creates no
\* session row and no tag row, and any other description creates exactly one
\* active session.
StartValidatesDescription ==
  [][(ActiveIds(DB) = {} /\ last'.op = "start_session")
       => /\ (last'.raised = EmptyDescription)
               <=> OnlyWhitespace(last'.args.description)
          /\ last'.raised = EmptyDescription
               => (sessions' = sessions /\ tags' = tags)
          /\ ~OnlyWhitespace(last'.args.description)
               => /\ last'.raised = NoError
                  /\ Cardinality(Ids(DB')) = Cardinality(Ids(DB)) + 1
                  /\ ActiveIds(DB') = Ids(DB') \ Ids(DB)]_vars

\* start was refused for a blank description with tags, nothing being active
StartValidatesDescription_Witness ==
  /\ last.op = "start_session"
  /\ last.raised = EmptyDescription
  /\ last.args.description = <<" ">>
  /\ last.args.tags # <<>>
  /\ Ids(DB) # {}

\* C4: with no session active, stop fails with NoActiveSession whatever the
\* notes, and leaves every session and every tag as it was.
StopWithoutActiveFails ==
  [][(ActiveIds(DB) = {} /\ last'.op = "stop_session")
       => /\ last'.raised = NoActiveSession
          /\ sessions' = sessions
          /\ tags' = tags]_vars

\* stop with notes was refused while a completed session is in the store
StopWithoutActiveFails_Witness ==
  /\ last.op = "stop_session"
  /\ last.raised = NoActiveSession
  /\ ~IsNull(last.args.notes)
  /\ \E id \in Ids(DB) : ~IsNull(sessions[id].end_time)

\* list() with its defaults
ListAll(db) == list_sessions(db, NULL, FALSE, NULL, DefaultLimit, 0, 0).ret

\* the ids of the sessions a query returned
ReturnedIds(rows) == {rows[k].id : k \in 1..Len(rows)}

\* C5: a successful stop completes the active session: it then has end_time
\* and duration, and notes equal to the argument; no session is active and
\* getCurrent returns nothing; list() still returns the session, with the
\* tags it was created with; and a start with a non-blank description
\* succeeds.
StopCompletesSession ==
  [][(last'.op = "stop_session" /\ last'.raised = NoError)
       => /\ ActiveIds(DB) = {last'.ret.id}
          /\ ~IsNull(sessions'[last'.ret.id].end_time)
          /\ ~IsNull(sessions'[last'.ret.id].duration)
          /\ sessions'[last'.ret.id].notes = last'.args.notes
          /\ ActiveIds(DB') = {}
          /\ IsNull(get_current_session(DB').ret)
          /\ \E k \in 1..Len(ListAll(DB')) :
               /\ ListAll(DB')[k].id = last'.ret.id
               /\ ListAll(DB')[k].tags = TagsOf(DB, last'.ret.id)
          /\ \A d \in Descriptions, t \in TagLists :
               ~OnlyWhitespace(d)
                 => start_session(DB', d, t, 0, 0).raised = NoError]_vars

\* C6: a completed session's end_time, duration and notes never change and
\* it never becomes active again, for as long as it is in the store.
CompletedIsFinal ==
  [][\A id \in Ids(DB) \cap Ids(DB') :
       ~IsNull(sessions[id].end_time)
         => /\ sessions'[id].end_time = sessions[id].end_time
            /\ sessions'[id].duration = sessions[id].duration
            /\ sessions'[id].notes = sessions[id].notes]_vars

\* a session completed earlier is in the store when a later one is stopped
\* at another clock reading and with other notes
CompletedIsFinal_Witness ==
  /\ last.op = "stop_session"
  /\ last.raised = NoError
  /\ \E id \in Ids(DB) :
       /\ id # last.ret.id
       /\ ~IsNull(sessions[id].end_time)
       /\ sessions[id].end_time # sessions[last.ret.id].end_time
       /\ sessions[id].notes # sessions[last.ret.id].notes

\* C7: for every completed session, end_time >= start_time, and the stored
\* duration is floor((end_time - start_time) / 60 s) and not negative,
\* whatever the two clock readings were.
DurationIsFloorOfElapsed ==
  \A id \in Ids(DB) :
    ~IsNull(sessions[id].end_time)
      => LET T0 == fromisoformat(sessions[id].start_time)
             T1 == fromisoformat(Val(sessions[id].end_time))
         IN  /\ T1 >= T0
             /\ Val(sessions[id].duration) = (T1 - T0) \div 60
             /\ Val(sessions[id].duration) >= 0

\* C8: start(d, [t1, t2]) with two tags that are not blank, followed by
\* getCurrent(), returns the session with description d and the tag list
\* [trim(lower(t1)), trim(lower(t2))].
TagsRoundTrip ==
  [][(/\ last.op = "start_session"
      /\ last.raised = NoError
      /\ Len(last.args.tags) = 2
      /\ ~OnlyWhitespace(last.args.tags[1])
      /\ ~OnlyWhitespace(last.args.tags[2])
      /\ last'.op = "get_current_session")
       => /\ ~IsNull(last'.ret)
          /\ Val(last'.ret).description = last.args.description
          /\ Val(last'.ret).tags.kind = "list"
          /\ Val(last'.ret).tags.list =
               <<strip(lower(last.args.tags[1])), strip(lower(last.args.tags[2]))>>]_vars

\* t is s without its leading and trailing whitespace
IsTrimOf(t, s) ==
  \E a \in 0..Len(s), b \in 0..Len(s) :
    /\ a + b <= Len(s)
    /\ t = SubSeq(s, a + 1, Len(s) - b)
    /\ \A i \in 1..a : IsSpace(s[i])
    /\ \A i \in (Len(s) - b + 1)..Len(s) : IsSpace(s[i])
    /\ t # <<>> => (~IsSpace(t[1]) /\ ~IsSpace(t[Len(t)]))

\* the positions of the tags that are not blank
KeptPositions(tagsArg) == {i \in 1..Len(tagsArg) : ~OnlyWhitespace(tagsArg[i])}

\* the k-th of them
KeptPosition(tagsArg, k) ==
  CHOOSE i \in KeptPositions(tagsArg) :
    Cardinality({j \in KeptPositions(tagsArg) : j <= i}) = k

\* C9: the view a successful start returns carries the description given and
\* the tags given, each without its leading and trailing whitespace, the
\* blank ones dropped, in the order given.
StartReturnsTrimmedTags ==
  (last.op = "start_session" /\ last.raised = NoError)
    => /\ last.ret.description = last.args.description
       /\ Len(last.ret.tags) = Cardinality(KeptPositions(last.args.tags))
       /\ \A k \in 1..Len(last.ret.tags) :
            /\ IsTrimOf(last.ret.tags[k],
                        last.args.tags[KeptPosition(last.args.tags, k)])
            /\ last.ret.tags[k] # <<>>

\* start returned ["B", "c"] for the tags ["B ", " c"]
StartReturnsTrimmedTags_Witness ==
  /\ last.op = "start_session"
  /\ last.raised = NoError
  /\ last.args.tags = << <<"B", " ">>, <<" ", "c">> >>
  /\ last.ret.tags = << <<"B">>, <<"c">> >>

\* the ids given out and no longer in table sessions: the deleted sessions
DeletedIds == (1..seq) \ Ids(DB)

\* C10: once a session is deleted, in every later state the tags table has
\* no row with its id, and list() and search() do not return it.
DeleteRemovesTags ==
  \A id \in DeletedIds :
    /\ \A k \in 1..Len(tags) : tags[k].session_id # id
    /\ id \notin ReturnedIds(ListAll(DB))
    /\ \A term \in SearchTerms :
         id \notin ReturnedIds(search_sessions(DB, term, DefaultLimit).ret)

\* the sessions of the store that have a tag equal to t
TaggedWith(t) ==
  {i \in Ids(DB) : \E k \in 1..Len(TagsOf(DB, i)) : TagsOf(DB, i)[k] = t}

\* the smaller of two numbers
Min(a, b) == IF a <= b THEN a ELSE b

\* rows holds the n latest-started sessions among ids (all of them when there
\* are fewer), each once, latest start_time first
IsLatestFirst(rows, ids, n) ==
  /\ ReturnedIds(rows) \subseteq ids
  /\ Len(rows) = Min(n, Cardinality(ids))
  /\ \A k \in 1..Len(rows), l \in 1..Len(rows) :
       k < l => /\ rows[k].id # rows[l].id
                /\ TextLeq(rows[l].start_time, rows[k].start_time)
  /\ \A i \in ids \ ReturnedIds(rows), k \in 1..Len(rows) :
       TextLeq(sessions[i].start_time, rows[k].start_time)

\* C11 as stated: for any tag argument x, the empty text included, list(tag=x)
\* returns exactly the sessions, up to the limit, that have a tag equal to
\* trim(lower(x)), latest start_time first.
ListFiltersByAnyTag ==
  (last.op = "list_sessions" /\ ~IsNull(last.args.tag))
    => IsLatestFirst(last.ret, TaggedWith(strip(lower(Val(last.args.tag)))),
                     last.args.limit)

\* C11: for any tag argument x other than the empty text, list(tag=x) returns
\* exactly the sessions, up to the limit, that have a tag equal to
\* trim(lower(x)), latest start_time first; the empty text filters nothing.
ListFiltersByTag ==
  /\ (last.op = "list_sessions" /\ ~IsNull(last.args.tag)
        /\ Val(last.args.tag) # <<>>)
       => IsLatestFirst(last.ret, TaggedWith(strip(lower(Val(last.args.tag)))),
                        last.args.limit)
  /\ (last.op = "list_sessions" /\ last.args.tag = Some(<<>>))
       => IsLatestFirst(last.ret, Ids(DB), last.args.limit)

\* with sessions tagged {a}, {b} and {a,b}, list(tag="A ") returned the first
\* and the third
ListFiltersByTag_Witness ==
  /\ last.op = "list_sessions"
  /\ last.args.tag = Some(<<"A", " ">>)
  /\ Ids(DB) = {1, 2, 3}
  /\ TagsOf(DB, 1) = << <<"a">> >>
  /\ TagsOf(DB, 2) = << <<"b">> >>
  /\ TagsOf(DB, 3) = << <<"a">>, <<"b">> >>
  /\ ReturnedIds(last.ret) = {1, 3}

\* text holds term as a run of consecutive characters, ASCII case set aside
Contains(text, term) ==
  \E k \in 0..(Len(text) - Len(term)) :
    \A j \in 1..Len(term) : LowerChar(text[k + j]) = LowerChar(term[j])

\* the sessions whose description or notes hold term
Containing(term) ==
  {i \in Ids(DB) :
     \/ Contains(sessions[i].description, term)
     \/ (~IsNull(sessions[i].notes) /\ Contains(Val(sessions[i].notes), term))}

\* C12: search(term, limit) returns exactly the sessions, up to the limit,
\* whose description or notes hold the term as a literal substring compared
\* without regard to case, every character of the term standing for itself.
SearchMatchesLiterally ==
  last.op = "search_sessions"
    => IsLatestFirst(last.ret, Containing(last.args.search_term), DefaultLimit)

RECURSIVE SumShares(_)
\* the sum of the numerators of the percentages of the tag lines
SumShares(lines) ==
  IF lines = <<>> THEN 0
  ELSE Head(lines).percentage[1] + SumShares(Tail(lines))

\* the completed sessions of the period of the summary made last
PeriodCompleted ==
  {i \in Ids(DB) :
     /\ ~IsNull(sessions[i].end_time)
     /\ IsNull(last.args.days) \/
          /\ TextLeq(isoformat(last.args.now1 - Val(last.args.days) * 86400),
                     sessions[i].start_time)
          /\ TextLeq(sessions[i].start_time, isoformat(last.args.now2))}

\* C13: in a by-tag summary the percentages of all tags together are at most
\* 100% of the period's total minutes, whatever the store holds, and exactly
\* 100% when the total is positive and every completed session of the period
\* has at least one tag.
TagPercentagesSumTo100 ==
  (last.op = "generate_summary" /\ last.args.by_tag)
    => LET total == last.ret.total_minutes
           whole == 100 * (IF total > 0 THEN total ELSE 1)
       IN  /\ SumShares(last.ret.tag_lines) <= whole
           /\ (total > 0 /\ \A i \in PeriodCompleted : TagsOf(DB, i) # <<>>)
                => SumShares(last.ret.tag_lines) = whole

\* the sessions with an end_time
CompletedIds == {i \in Ids(DB) : ~IsNull(sessions[i].end_time)}

RECURSIVE SumOfDurations(_)
\* the sum of the stored durations of the sessions ids
SumOfDurations(ids) ==
  IF ids = {} THEN 0
  ELSE LET i == CHOOSE j \in ids : TRUE
       IN  Val(sessions[i].duration) + SumOfDurations(ids \ {i})

\* C14: getStats over all time returns sessionCount = the number of completed
\* sessions (end_time present), totalMinutes = the sum of their durations,
\* avgMinutes = totalMinutes / sessionCount (0 when there is none) and
\* totalIncludingActive = the number of all sessions, whatever the length of
\* the sessions.
StatsCountCompleted ==
  last.op = "get_session_stats"
    => /\ last.ret.session_count = Cardinality(CompletedIds)
       /\ last.ret.total_minutes = SumOfDurations(CompletedIds)
       /\ last.ret.avg_minutes[1] * Cardinality(CompletedIds)
            = last.ret.total_minutes * last.ret.avg_minutes[2]
       /\ Cardinality(CompletedIds) = 0 => last.ret.avg_minutes[1] = 0
       /\ last.ret.total_sessions_including_active = Cardinality(Ids(DB))

\* C15: a process that has passed start's check inserts its session whatever
\* the store holds by then: the INSERT is refused for no reason other than
\* the write lock, and its commit either adds one more active session or,
\* only while the other process holds a read lock, raises DatabaseLocked and
\* leaves the database as it was.  Two processes can so both see no active
\* session and both insert one.
StoreAcceptsSecondActive ==
  [][\A p \in Procs :
       /\ (procs[p].pc = "insert_session" /\ procs'[p].pc # "insert_session")
            => \/ /\ procs'[p].pc = "insert_tags"
                  /\ IsNull(procs'[p].work.sessions[procs'[p].id].end_time)
               \/ /\ last'.op = "start_session"
                  /\ last'.raised = DatabaseLocked
       /\ (procs[p].pc = "insert_tags" /\ procs'[p].pc = "idle")
            => \/ /\ last'.raised = NoError
                  /\ Ids(DB') = Ids(DB) \cup {procs[p].id}
                  /\ ActiveIds(DB') = ActiveIds(DB) \cup {procs[p].id}
               \/ /\ last'.raised = DatabaseLocked
                  /\ ~NoOtherReader(p)
                  /\ DB' = DB]_vars

\* two starts, one by each process, have both returned and the store holds
\* two sessions without end_time
StoreAcceptsSecondActive_Witness ==
  /\ Cardinality(ActiveIds(DB)) = 2
  /\ \A p \in Procs : procs[p].pc = "idle"
  /\ last.op = "start_session"
  /\ last.raised = NoError

\* the tag texts create_session writes for the tags it is given
StoredTags(tagsArg) == [k \in 1..Len(tagsArg) |-> strip(lower(tagsArg[k]))]

\* C16: every mutating Store call takes effect in one step of the committed
\* database: a session appears together with all the tags given to
\* createSession, an ended session gets end_time, duration and notes at once,
\* the tags of a stored session never change, and a session goes only by a
\* delete's commit; no reader sees a state in between, and a call that ends
\* in DatabaseLocked leaves the committed database as it was.
StoreCallsAtomic ==
  [][/\ \A i \in Ids(DB') \ Ids(DB) :
          \E p \in Procs :
            /\ procs[p].pc = "insert_tags"
            /\ procs[p].id = i
            /\ TagsOf(DB', i) = StoredTags(cleaned_tags(procs[p].tags))
     /\ \A i \in Ids(DB) \cap Ids(DB') :
          /\ TagsOf(DB', i) = TagsOf(DB, i)
          /\ \/ sessions'[i] = sessions[i]
             \/ \E p \in Procs :
                  /\ procs[p].pc = "end_commit"
                  /\ procs[p].id = i
                  /\ ~IsNull(sessions'[i].end_time)
                  /\ ~IsNull(sessions'[i].duration)
                  /\ sessions'[i].notes = procs[p].notes
     /\ \A i \in Ids(DB) \ Ids(DB') :
          \E p \in Procs : procs[p].pc = "delete_commit" /\ procs[p].id = i
     /\ last'.raised = DatabaseLocked => DB' = DB]_vars

\* a process has written its session row and the first of its two tags in
\* its transaction, and the committed database, which the other process can
\* read at this point, holds neither
StoreCallsAtomic_Witness ==
  \E p \in Procs :
    /\ procs[p].pc = "insert_tags"
    /\ Len(procs[p].pending) = 1
    /\ Len(procs[p].work.tags) = Len(tags) + 1
    /\ procs[p].id \notin Ids(DB)
    /\ \A q \in Procs \ {p} : procs[q].pc = "idle"

\* C17: across any sequence of creates and deletes, createSession returns an
\* id that is in use by no session and is greater than every id given out
\* before (the counter seq never goes down and no stored id is above it), so
\* the id of a deleted session is never given out again.
IdsStrictlyIncrease ==
  [][/\ seq' >= seq
     /\ \A i \in Ids(DB') : i <= seq'
     /\ last'.op = "create_session"
          => /\ last'.ret > seq
             /\ last'.ret = seq'
             /\ last'.ret \notin Ids(DB)
             /\ Ids(DB') = Ids(DB) \cup {last'.ret}
     /\ (last'.op = "create_session" /\ last.op = "create_session")
          => last'.ret > last.ret]_vars

\* a create after the delete of the session with the highest id: the new
\* session has id 2 and id 1, deleted, is not in the store
IdsStrictlyIncrease_Witness ==
  /\ last.op = "create_session"
  /\ last.ret = 2
  /\ Ids(DB) = {2}

\* C18: Store.endSession(id, notes) for an id that matches no session returns
\* False, raises nothing, and leaves every session and every tag row as it
\* was.
EndMissingFails ==
  [][(last'.op = "end_session" /\ last'.args.session_id \notin Ids(DB))
       => /\ last'.raised = NoError
          /\ last'.ret = FALSE
          /\ sessions' = sessions
          /\ tags' = tags]_vars

\* endSession with notes returned False for the id of a deleted session while
\* another session is in the store
EndMissingFails_Witness ==
  /\ last.op = "end_session"
  /\ last.ret = FALSE
  /\ ~IsNull(last.args.notes)
  /\ last.args.session_id \in DeletedIds
  /\ Ids(DB) # {}

\* C20: Store.endSession on a session that is already ended returns True and
\* rewrites end_time, duration and notes with the values of this call (notes
\* absent when none is passed), and leaves start_time, description,
\* created_at and the tags as they were.
EndOverwritesEnded ==
  [][(/\ last'.op = "end_session"
      /\ last'.args.session_id \in Ids(DB)
      /\ ~IsNull(sessions[last'.args.session_id].end_time))
       => LET id == last'.args.session_id
          IN  /\ last'.ret = TRUE
              /\ sessions'[id].end_time = Some(isoformat(last'.args.now))
              /\ sessions'[id].duration =
                   Some(TruncDiv(last'.args.now
                                   - fromisoformat(sessions[id].start_time), 60))
              /\ sessions'[id].notes = last'.args.notes
              /\ sessions'[id].start_time = sessions[id].start_time
              /\ sessions'[id].description = sessions[id].description
              /\ sessions'[id].created_at = sessions[id].created_at
              /\ tags' = tags]_vars

\* a session that was ended before has been ended again, at another clock
\* reading and without notes: it has the second call's end_time and no notes
EndOverwritesEnded_Witness ==
  /\ last.op = "end_session"
  /\ last.args.ended
  /\ last.ret = TRUE
  /\ IsNull(last.args.notes)
  /\ IsNull(sessions[last.args.session_id].notes)
  /\ sessions[last.args.session_id].end_time = Some(isoformat(ClockSpan))
  /\ TagsOf(DB, last.args.session_id) # <<>>

\* C19: delete(id) returns True exactly when a session with that id was in
\* the store, and then removes that session and no other; for an id that
\* matches no session it returns False and leaves the store as it was, so a
\* second delete of the same id returns False.
DeleteReportsRemoval ==
  [][last'.op = "delete_session"
       => LET id == last'.args.session_id
          IN  /\ last'.raised = NoError
              /\ last'.ret = (id \in Ids(DB))
              /\ Ids(DB') = Ids(DB) \ {id}
              /\ \A i \in Ids(DB') :
                   /\ sessions'[i] = sessions[i]
                   /\ TagsOf(DB', i) = TagsOf(DB, i)
              /\ id \notin Ids(DB) => (sessions' = sessions /\ tags' = tags)
              /\ (last.op = "delete_session" /\ last.args.session_id = id)
                   => last'.ret = FALSE]_vars

\* delete returned False for the id of a session deleted before, while
\* another session is in the store
DeleteReportsRemoval_Witness ==
  /\ last.op = "delete_session"
  /\ last.ret = FALSE
  /\ last.args.session_id \in DeletedIds
  /\ Ids(DB) # {}

\* the sessions list(days, today) is to return when it reads the clock at
\* now: those of today from midnight to now, else those of the last N days,
\* else all
InPeriod(days, today, now) ==
  {i \in Ids(DB) :
     LET start == fromisoformat(sessions[i].start_time)
     IN  IF today THEN Midnight(now) <= start /\ start <= now
         ELSE IF ~IsNull(days)
           THEN now - Val(days) * 86400 <= start /\ start <= now
         ELSE TRUE}

\* C21: list(days, today) returns exactly the sessions of its period, latest
\* first: with today set those started between local midnight and now,
\* whatever days is; with only days = N set those started between now minus
\* N days and now, for every N >= 0; with neither set all sessions.
ListResolvesPeriod ==
  (last.op = "list_sessions")
    => IsLatestFirst(last.ret,
                     InPeriod(last.args.days, last.args.today, last.args.now),
                     last.args.limit)

\* the sessions that satisfy every filter given: start_time from start_date
\* on, start_time up to end_date, a tag equal to the tag lower-cased and
\* trimmed, the term held by the description or the notes
Satisfying(start_date, end_date, tag, search_term) ==
  {i \in Ids(DB) :
     /\ IsNull(start_date) \/
          Val(start_date) <= fromisoformat(sessions[i].start_time)
     /\ IsNull(end_date) \/
          fromisoformat(sessions[i].start_time) <= Val(end_date)
     /\ IsNull(tag) \/ i \in TaggedWith(strip(lower(Val(tag))))
     /\ IsNull(search_term) \/ i \in Containing(Val(search_term))}

\* C22: Store.getSessions(filters, limit) returns the sessions that satisfy
\* every supplied filter (startDate, endDate, tag, searchTerm, combined with
\* AND), latest start_time first, and when more than limit sessions match,
\* the limit most recently started ones and no more.
GetSessionsCombinesFilters ==
  (last.op = "get_sessions")
    => IsLatestFirst(last.ret,
                     Satisfying(last.args.start_date, last.args.end_date,
                                last.args.tag, last.args.search_term),
                     last.args.limit)

\* the texts a command printed
Printed == {last.ret.output[k] : k \in 1..Len(last.ret.output)}

\* C23: at the command layer, stop with no active session prints a message
\* holding "No active session" and exits with a non-zero code, the store
\* left as it was; status with no active session prints "No active session"
\* and exits with code 0.
CommandsReportNoActive ==
  [][(ActiveIds(DB) = {} /\ ActiveIds(environ.file) = {})
       => /\ last'.op = "stop"
               => /\ last'.ret.exit_code # 0
                  /\ NoActiveSession \in Printed'
                  /\ UNCHANGED <<sessions, tags, seq, environ>>
          /\ last'.op = "status"
               => /\ last'.ret.exit_code = 0
                  /\ NoActiveStatus \in Printed']_vars

\* the commands, the fixture set aside
Commands == {"start", "stop", "status", "list", "search", "report", "delete"}

\* C29: when DEVLOG_DB_PATH names a database file, a command that runs works
\* on that file and leaves the default database as it is; a run on a fresh
\* file sees no session of an earlier run, so status finds no active session
\* and list finds no session.
CommandsUseNamedDatabase ==
  [][(/\ ~IsNull(environ.DEVLOG_DB_PATH)
      /\ last'.op \in Commands
      /\ last'.raised = NoError)
       => /\ UNCHANGED <<sessions, tags, seq>>
          /\ (last'.op = "status" /\ ActiveIds(environ.file) = {})
               => NoActiveStatus \in Printed'
          /\ (last'.op = "list" /\ Ids(environ.file) = {})
               => "No sessions found" \in Printed']_vars

\* the calendar days the clock of the period specification reads
ReportedDays == {now \div 86400 : now \in PeriodReadings}

\* the completed sessions whose start_time falls on a calendar day, from its
\* midnight up to, but not including, the next one
CompletedOn(day) ==
  {i \in CompletedIds :
     /\ day * 86400 <= fromisoformat(sessions[i].start_time)
     /\ fromisoformat(sessions[i].start_time) < (day + 1) * 86400}

\* C24: dayReport(date) lists a session if and only if it is completed and
\* its start_time falls on the calendar day of date, the next midnight not
\* included, and it lists all of them; so every completed session is in the
\* day report of exactly one date.
DayReportListsTheDay ==
  (last.op = "generate_day_report")
    => /\ ReturnedIds(day_completed(DB, last.args.date))
            = CompletedOn(last.args.date \div 86400)
       /\ Len(last.ret.lines) = Cardinality(CompletedOn(last.args.date \div 86400))
       /\ \A i \in CompletedIds :
            Cardinality({day \in ReportedDays :
                           i \in ReturnedIds(day_completed(DB, day * 86400))}) = 1

\* C25: summary never divides by zero: whatever the store holds (nothing,
\* active sessions only, sessions of zero minutes only), the average and every
\* tag percentage are quotients by a number other than zero; the average is
\* zero when the period has no completed session, or only ones of zero
\* minutes, and every tag percentage is zero when the period total is zero.
SummaryGuardsDivision ==
  (last.op = "generate_summary")
    => /\ last.ret.average[2] # 0
       /\ \A k \in 1..Len(last.ret.tag_lines) :
            last.ret.tag_lines[k].percentage[2] # 0
       /\ (\A i \in PeriodCompleted : Val(sessions[i].duration) = 0)
            => last.ret.average[1] = 0
       /\ last.ret.total_minutes = 0
            => \A k \in 1..Len(last.ret.tag_lines) :
                 last.ret.tag_lines[k].percentage[1] = 0

\* a by-tag summary of a store whose only completed session has a tag and
\* lasted zero minutes: a tag line is there and the total is zero
SummaryGuardsDivision_Witness ==
  /\ last.op = "generate_summary"
  /\ last.args.by_tag
  /\ Len(last.ret.tag_lines) > 0
  /\ last.ret.total_minutes = 0
  /\ last.ret.total_sessions = 0
  /\ PeriodCompleted # {}

\* the operations of the lifecycle service that only read
ReadingOps ==
  {"get_current_session", "list_sessions", "search_sessions", "get_session_stats"}

\* C26: no operation of the lifecycle service changes the description,
\* start_time, created_at or tags of a stored session; a stop changes nothing
\* but end_time, duration and notes of the one active session and leaves
\* every other session and every tag row as it was; list, search, getCurrent
\* and getStats change nothing in the store.
ServiceKeepsCreationFields ==
  [][/\ \A id \in Ids(DB) \cap Ids(DB') :
          /\ sessions'[id].description = sessions[id].description
          /\ sessions'[id].start_time = sessions[id].start_time
          /\ sessions'[id].created_at = sessions[id].created_at
          /\ TagsOf(DB', id) = TagsOf(DB, id)
     /\ last'.op = "stop_session"
          => /\ tags' = tags
             /\ seq' = seq
             /\ Ids(DB') = Ids(DB)
             /\ \A id \in Ids(DB) :
                  sessions'[id] # sessions[id]
                    => (ActiveIds(DB) = {id} /\ last'.ret.id = id)
     /\ last'.op \in ReadingOps
          => (sessions' = sessions /\ tags' = tags /\ seq' = seq)]_vars

\* a tagged session has been stopped with notes while a session completed
\* earlier, without notes, is in the store
ServiceKeepsCreationFields_Witness ==
  /\ last.op = "stop_session"
  /\ last.raised = NoError
  /\ ~IsNull(last.args.notes)
  /\ TagsOf(DB, last.ret.id) # <<>>
  /\ \E id \in Ids(DB) \ {last.ret.id} :
       ~IsNull(sessions[id].end_time) /\ IsNull(sessions[id].notes)

\* C27: the duration in the view a stop returns, cut to whole minutes as the
\* command stop shows it, equals the duration the Store wrote for that
\* session in the same call, whatever the two clock readings of the call.
ViewDurationIsStored ==
  (last.op = "stop_session" /\ last.raised = NoError)
    => ShownMinutes(last.ret.duration) = Val(sessions[last.ret.id].duration)

\* C28: when more than one session has no end_time, getActiveSession returns
\* one with the latest start_time, so the stop that reads it ends that
\* session only: at its commit that session alone leaves the active ones,
\* and every other session stays as it was, active ones included.  A commit
\* made while the other process holds a read lock raises DatabaseLocked
\* instead and ends no session.
StopEndsLatestActive ==
  [][\A p \in Procs :
       /\ (procs[p].pc = "idle" /\ procs'[p].pc = "stop_fetch")
            => /\ procs'[p].id \in ActiveIds(DB)
               /\ procs'[p].active = Some(RowDict(DB, procs'[p].id))
               /\ \A i \in ActiveIds(DB) :
                    TextLeq(sessions[i].start_time,
                            sessions[procs'[p].id].start_time)
       /\ (procs[p].pc = "end_commit" /\ procs'[p].pc = "idle")
            => \/ /\ last'.raised = NoError
                  /\ ActiveIds(DB') = ActiveIds(DB) \ {procs[p].id}
                  /\ \A i \in Ids(DB) \ {procs[p].id} :
                       i \in Ids(DB') /\ sessions'[i] = sessions[i]
               \/ /\ last'.raised = DatabaseLocked
                  /\ ~NoOtherReader(p)
                  /\ DB' = DB]_vars

\* two sessions are active, a stop has read the later-started one and
\* written its end in its transaction, where the earlier-started one is still
\* active
StopEndsLatestActive_Witness ==
  \E p \in Procs :
    /\ procs[p].pc = "end_commit"
    /\ Cardinality(ActiveIds(DB)) = 2
    /\ \A i \in ActiveIds(DB) \ {procs[p].id} :
         /\ TextLess(sessions[i].start_time, sessions[procs[p].id].start_time)
         /\ ActiveIds(procs[p].work) = {i}

\* C30: for the active session getCurrent() and list() report the same tag
\* list: the 'tags' of the session getCurrent() returned is a list, the one
\* list() gives for that session, the empty list when it was created with no
\* tags.
CurrentAndListSameTags ==
  (last.op = "get_current_session" /\ ~IsNull(last.ret))
    => /\ Val(last.ret).tags.kind = "list"
       /\ \A k \in 1..Len(ListAll(DB)) :
            ListAll(DB)[k].id = Val(last.ret).id
              => Val(last.ret).tags.list = ListAll(DB)[k].tags

\* C31: in a by-tag summary the total line and the tag lines are computed
\* over the same completed sessions: each tag's session count is at most the
\* reported Total Sessions and each tag's minutes are at most the reported
\* total minutes, whatever the store holds.
TagLinesWithinTotals ==
  (last.op = "generate_summary" /\ last.args.by_tag)
    => \A k \in 1..Len(last.ret.tag_lines) :
         /\ last.ret.tag_lines[k].count <= last.ret.total_sessions
         /\ last.ret.tag_lines[k].minutes <= last.ret.total_minutes

\* C32: delete(id) of the active session removes it without completing it:
\* the call returns True, the row is gone, every other session is as it was
\* and no session is active; the call that follows finds nothing active:
\* getCurrent returns None, stop fails with NoActiveSession and changes
\* nothing, and start with a description that is not blank succeeds and
\* creates the one active session.
DeleteOfActiveFrees ==
  [][/\ (last'.op = "delete_session" /\ last'.args.session_id \in ActiveIds(DB))
          => /\ last'.raised = NoError
             /\ last'.ret = TRUE
             /\ Ids(DB') = Ids(DB) \ {last'.args.session_id}
             /\ \A i \in Ids(DB') : sessions'[i] = sessions[i]
             /\ ActiveIds(DB') = {}
     /\ (last.op = "delete_session" /\ last'.op = "get_current_session")
          => IsNull(last'.ret)
     /\ (last.op = "delete_session" /\ last'.op = "stop_session")
          => /\ last'.raised = NoActiveSession
             /\ sessions' = sessions
             /\ tags' = tags
     /\ (last.op = "delete_session" /\ last'.op = "start_session"
           /\ ~OnlyWhitespace(last'.args.description))
          => /\ last'.raised = NoError
             /\ Cardinality(Ids(DB')) = Cardinality(Ids(DB)) + 1
             /\ ActiveIds(DB') = Ids(DB') \ Ids(DB)]_vars

\* the active session, started with tags after another one was completed,
\* has just been deleted: the completed one is all the store holds
DeleteOfActiveFrees_Witness ==
  /\ last.op = "delete_session"
  /\ last.ret = TRUE
  /\ last.args.session_id = 2
  /\ Ids(DB) = {1}
  /\ ~IsNull(sessions[1].end_time)
  /\ \E k \in 1..Len(tags) : tags[k].session_id = 2

====
